---- MODULE Spec2Model ----
(***************************************************************************)
(* Tool-invocation servers of lessons/M3/MCP: the JSON-RPC front end, the  *)
(* dispatcher (call_tool), the tool handlers and the Overpass mirror       *)
(* failover executor (overpass_query), as state machines over request      *)
(* slots.  Time is counted in whole seconds, per call, from the moment     *)
(* call_tool starts waiting on the handler.  With them the two programs of *)
(* module_3_mcp: the calculator tool of mcp_server.py and the conversation *)
(* loop of ollama_client.py.                                               *)
(***************************************************************************)
EXTENDS Integers, Sequences, FiniteSets, TLC

VARIABLES
    server,         \* which server process this is; fixed for the life of the process
    phase,          \* "startup" until lifespan has run load_model_on_startup, then "serving"
    tokenizer,      \* joint_server._tokenizer: "None" | "loaded"
    model,          \* joint_server._model: "None" | "loaded"
    model_ready,    \* joint_server._model_ready
    model_error,    \* joint_server._model_error: NoneVal or the message
    api_key,        \* mcp_bullshit.TRIPADVISOR_API_KEY, read once from the environment
    loads,          \* how often load_model_on_startup has run
    pool,           \* the module-level list OVERPASS_ENDPOINTS as it stands now
    sse,            \* the SSE servers: the transports made so far, the posts answered
    t,              \* the request slots: one task record per slot
    calc,           \* mcp_server.calculator: the call's arguments and its outcome
    chat            \* ollama_client.main: the messages list and where the loop stands

vars == <<server, phase, tokenizer, model, model_ready, model_error, api_key, loads, pool,
          sse, t, calc, chat>>

\* the globals of a server process; everything but the request slots
Process == <<server, phase, tokenizer, model, model_ready, model_error, api_key, loads>>
Globals == <<Process, pool, sse, calc, chat>>

----------------------------------------------------------------------------
(* Values.  Python and JSON values are strings; the absent key, JSON null,  *)
(* Python None, a non-mapping, non-string value (a list) and the boolean    *)
(* true are marked.                                                         *)

Absent  == "<absent>"
Null    == "<null>"
NoneVal == "<None>"
ListVal == "<list>"
TrueVal == "<true>"

\* number literals used as argument values
Numbers == {"46.9", "7.4", "500", "1"}

\* str(v) as an f-string renders it
PyStr(v) == IF v = NoneVal THEN "None" ELSE IF v = ListVal THEN "[1]" ELSE v

\* float(v) rendered by an f-string: 46.9 -> 46.9, 500 -> 500.0
PyFloat(v) ==
    CASE v = "46.9" -> "46.9"
      [] v = "7.4"  -> "7.4"
      [] v = "500"  -> "500.0"
      [] v = "1"    -> "1.0"

\* int(v) rendered by an f-string: truncation toward zero
PyInt(v) ==
    CASE v = "46.9" -> "46"
      [] v = "7.4"  -> "7"
      [] v = "500"  -> "500"
      [] v = "1"    -> "1"

\* a dict is a function from its keys; {} is the empty function
EmptyDict == [k \in {} |-> Absent]
Dict(kv)  == [kind |-> "dict", kv |-> kv]
NotDict   == [kind |-> "list", kv |-> EmptyDict]     \* a truthy non-mapping value
NullArgs  == [kind |-> "null", kv |-> EmptyDict]
NoArgs    == [kind |-> "absent", kv |-> EmptyDict]

Has(a, k)      == k \in DOMAIN a.kv
Get(a, k, dflt) == IF Has(a, k) THEN a.kv[k] ELSE dflt

----------------------------------------------------------------------------
(* Servers and their tool catalogues.                                       *)

Joint       == "joint_server"
Overpass    == "overpass_server"
TripAdvisor == "mcp_bullshit"
Translator  == "japanese_translator_http_server"
Servers     == {Joint, Overpass, TripAdvisor, Translator}

DEFAULT_SEARCH_RADIUS_M == "1500"

schema_get_current_time ==
    [properties |-> {"timezone"}, required |-> {}]
schema_search_osm_restaurants ==
    [properties |-> {"latitude", "longitude", "limit", "radius_m"},
     required |-> {"latitude", "longitude"}]
schema_get_osm_place_details ==
    [properties |-> {"osm_type", "osm_id"}, required |-> {"osm_type", "osm_id"}]
\* variant: the translation schema declares no required field
schema_translate_ja_to_en_NothingRequired ==
    [properties |-> {"text", "max_length"}, required |-> {}]
schema_translate_ja_to_en ==
    [properties |-> {"text", "max_length"}, required |-> {"text"}]
schema_ping ==
    [properties |-> {"msg"}, required |-> {}]
tool_schema_search_tripadvisor_restaurants ==
    [properties |-> {"latitude", "longitude", "limit"},
     required |-> {"latitude", "longitude"}]
tool_schema_get_restaurant_details ==
    [properties |-> {"location_id"}, required |-> {"location_id"}]
tool_schema_get_restaurant_reviews ==
    [properties |-> {"location_id", "limit"}, required |-> {"location_id"}]

Tool(n, s) == [name |-> n, inputSchema |-> s]

\* list_tools() of each server, in the order the code returns them
list_tools(sv) ==
    CASE sv = Joint ->
            << Tool("get_current_time", schema_get_current_time),
               Tool("search_osm_restaurants", schema_search_osm_restaurants),
               Tool("get_osm_place_details", schema_get_osm_place_details),
               Tool("translate_ja_to_en", schema_translate_ja_to_en),
               Tool("ping", schema_ping) >>
      [] sv = Overpass ->
            << Tool("get_current_time", schema_get_current_time),
               Tool("search_osm_restaurants", schema_search_osm_restaurants),
               Tool("get_osm_place_details", schema_get_osm_place_details) >>
      [] sv = TripAdvisor ->
            << Tool("get_current_time", schema_get_current_time),
               Tool("search_tripadvisor_restaurants", tool_schema_search_tripadvisor_restaurants),
               Tool("get_restaurant_details", tool_schema_get_restaurant_details),
               Tool("get_restaurant_reviews", tool_schema_get_restaurant_reviews) >>
      [] sv = Translator ->
            << Tool("translate_ja_to_en", schema_translate_ja_to_en) >>

Catalogue(sv) == {list_tools(sv)[i].name : i \in 1..Len(list_tools(sv))}

----------------------------------------------------------------------------
(* Tool handlers, up to their first suspension point.  A handler either     *)
(* returns a text, raises, or suspends on an upstream request ("await")     *)
(* with its parsed arguments q.  dur is the time it spent without yielding. *)

NoQ == [lat |-> "", lon |-> "", limit |-> "", radius_m |-> "",
        osm_type |-> "", osm_id |-> "", location_id |-> ""]

Return(text)     == [kind |-> "return", text |-> text, q |-> NoQ, dur |-> 0]
ReturnAfter(text, d) == [kind |-> "return", text |-> text, q |-> NoQ, dur |-> d]
Raise(detail)    == [kind |-> "raise", text |-> <<detail>>, q |-> NoQ, dur |-> 0]
RaiseAfter(detail, d) == [kind |-> "raise", text |-> <<detail>>, q |-> NoQ, dur |-> d]
Suspend(q)       == [kind |-> "await", text |-> <<>>, q |-> q, dur |-> 0]

NOW == "YYYY-MM-DD HH:MM:SS"
KnownZones == {"Europe/Rome"}

\* arguments[k] of a value that may be a dict, a list, or lack the key
KeyError(k)  == Raise("'" \o k \o "'")
IndexTypeError == Raise("list indices must be integers or slices, not str")
GetAttrError == Raise("'list' object has no attribute 'get'")
FloatError(v) == Raise("could not convert string to float: '" \o v \o "'")
IntError(v)   == Raise("invalid literal for int() with base 10: '" \o v \o "'")

\* the failure, if any, of reading arguments[k]; NoneVal when the read succeeds
Subscript(a, k) ==
    IF a.kind # "dict" THEN IndexTypeError
    ELSE IF ~Has(a, k) THEN KeyError(k)
    ELSE Return(<<a.kv[k]>>)

UnknownZoneNote(sv, tzname) ==
    IF sv = Joint
    THEN <<"Current time (UTC): ", NOW, " UTC. Unknown timezone '", tzname, "'.">>
    ELSE <<"Current time (UTC): ", NOW, " UTC. Note: Unknown timezone '", tzname,
           "', falling back to UTC.">>

tool_get_current_time(sv, arguments) ==
    IF arguments.kind # "dict" THEN GetAttrError
    ELSE LET v == Get(arguments, "timezone", NoneVal)
             tzname == IF v \in {NoneVal, Null, ""} THEN "UTC" ELSE v
         IN  IF tzname \in Numbers \cup {ListVal}
             THEN Raise("'int' object has no attribute 'strip'")
             ELSE IF tzname = "UTC"
             THEN Return(<<"Current time in ", tzname, ": ", NOW, " UTC">>)
             ELSE IF tzname \notin KnownZones
             THEN Return(UnknownZoneNote(sv, tzname))
             ELSE Return(<<"Current time in ", tzname, ": ", NOW, " (UTC+hh:mm)">>)

\* float(arguments[k]) / int(arguments.get(k, dflt)): the failure or the value
FloatArg(a, k) ==
    LET s == Subscript(a, k)
    IN  IF s.kind = "raise" THEN s
        ELSE IF s.text[1] \in Numbers THEN Return(<<PyFloat(s.text[1])>>)
        ELSE FloatError(s.text[1])

IntOpt(a, k, dflt) ==
    LET v == Get(a, k, dflt)
    IN  IF v \in Numbers THEN Return(<<PyInt(v)>>)
        ELSE IF v = dflt THEN Return(<<dflt>>)
        ELSE IntError(v)

IntArg(a, k) ==
    LET s == Subscript(a, k)
    IN  IF s.kind = "raise" THEN s
        ELSE IF s.text[1] \in Numbers THEN Return(<<PyInt(s.text[1])>>)
        ELSE IntError(s.text[1])

tool_search_osm_restaurants(arguments) ==
    LET lat == FloatArg(arguments, "latitude")
        lon == FloatArg(arguments, "longitude")
        limit == IntOpt(arguments, "limit", "10")
        radius_m == IntOpt(arguments, "radius_m", DEFAULT_SEARCH_RADIUS_M)
    IN  IF lat.kind = "raise" THEN lat
        ELSE IF lon.kind = "raise" THEN lon
        ELSE IF limit.kind = "raise" THEN limit
        ELSE IF radius_m.kind = "raise" THEN radius_m
        ELSE Suspend([NoQ EXCEPT !.lat = lat.text[1], !.lon = lon.text[1],
                                 !.limit = limit.text[1], !.radius_m = radius_m.text[1]])

OsmTypes == {"node", "way", "relation"}

tool_get_osm_place_details(arguments) ==
    LET osm_type == Subscript(arguments, "osm_type")
        osm_id == IntArg(arguments, "osm_id")
    IN  IF osm_type.kind = "raise" THEN osm_type
        ELSE IF osm_id.kind = "raise" THEN osm_id
        ELSE IF PyStr(osm_type.text[1]) \notin OsmTypes
        THEN Return(<<"osm_type must be one of: node, way, relation.">>)
        ELSE Suspend([NoQ EXCEPT !.osm_type = osm_type.text[1], !.osm_id = osm_id.text[1]])

\* variant: the arguments are read before the readiness check
tool_translate_ja_to_en_ReadsFirst(arguments, g, genok) ==
    LET text == Subscript(arguments, "text")
        max_length == IntOpt(arguments, "max_length", "512")
    IN  IF text.kind = "raise" THEN text
        ELSE IF max_length.kind = "raise" THEN max_length
        ELSE IF ~model_ready \/ tokenizer = "None"
        THEN Return(<<"[translation-error] mBART not ready: ",
                      IF model_error = NoneVal THEN "unknown error" ELSE model_error>>)
        ELSE IF text.text[1] \in Numbers \cup {ListVal}
        THEN Raise("text input must be of type str")
        ELSE IF model = "None"
        THEN Raise("'NoneType' object has no attribute 'generate'")
        ELSE IF ~genok THEN RaiseAfter("generate failed", g)
        ELSE ReturnAfter(<<"translation of ", text.text[1]>>, g)

\* g: seconds model.generate runs (it never yields); genok: whether it succeeds
tool_translate_ja_to_en(arguments, g, genok) ==
    IF ~model_ready \/ tokenizer = "None"
    THEN Return(<<"[translation-error] mBART not ready: ",
                  IF model_error = NoneVal THEN "unknown error" ELSE model_error>>)
    ELSE LET text == Subscript(arguments, "text")
             max_length == IntOpt(arguments, "max_length", "512")
         IN  IF text.kind = "raise" THEN text
             ELSE IF max_length.kind = "raise" THEN max_length
             ELSE IF text.text[1] \in Numbers \cup {ListVal}
             THEN Raise("text input must be of type str")
             \* _model.generate(...) on the global as it stands
             ELSE IF model = "None"
             THEN Raise("'NoneType' object has no attribute 'generate'")
             ELSE IF ~genok THEN RaiseAfter("generate failed", g)
             ELSE ReturnAfter(<<"translation of ", text.text[1]>>, g)

\* variant: ping remembers the last msg in a module-level variable and
\* answers with it when the call brings none of its own
tool_ping_RemembersMsg(arguments) ==
    IF arguments.kind # "dict" THEN GetAttrError
    ELSE IF \E x \in DOMAIN t : t[x].pc = "done" /\ t[x].name = "ping"
    THEN Return(<<"pong: ", "remembered">>)
    ELSE Return(<<"pong: ", PyStr(Get(arguments, "msg", "ok"))>>)

tool_ping(arguments) ==
    IF arguments.kind # "dict" THEN GetAttrError
    ELSE Return(<<"pong: ", PyStr(Get(arguments, "msg", "ok"))>>)

----------------------------------------------------------------------------
(* Bounds of the model.                                                     *)

MaxLatency == 1     \* an upstream answer (other than a timeout) takes 0..MaxLatency s
MaxElems   == 2     \* an upstream answer lists 0..MaxElems elements
MaxGen     == 90    \* model.generate runs for 1 s or for MaxGen s
MaxStreams == 2          \* GET /sse requests
MaxPosts   == 2          \* POST /message requests
MaxWait    == 2     \* a request's wait is counted up to MaxWait s
MaxNum     == 2     \* calculator's numbers are -MaxNum..MaxNum
MaxTurns   == 2     \* the user types up to MaxTurns questions

----------------------------------------------------------------------------
(* Mirror-failover executor: overpass_query (joint_server.py 99-123,        *)
(* overpass_server.py 74-102).                                              *)

OVERPASS_ENDPOINTS ==
    << "https://overpass-api.de/api/interpreter",
       "https://overpass.kumi.systems/api/interpreter",
       "https://z.overpass-api.de/api/interpreter" >>

NEndpoints == Len(OVERPASS_ENDPOINTS)

\* the orders random.shuffle can leave a copy of the list in
Shuffles ==
    {p \in [1..NEndpoints -> 1..NEndpoints] : \A i, j \in 1..NEndpoints : i # j => p[i] # p[j]}
\* endpoints = OVERPASS_ENDPOINTS[:]; random.shuffle(endpoints)
Shuffled(p) == [i \in 1..NEndpoints |-> pool[p[i]]]

\* variant: random.shuffle(OVERPASS_ENDPOINTS), no copy taken
ListAfterShuffle_InPlace(p) == [i \in 1..NEndpoints |-> pool[p[i]]]

\* the module-level list once a call has shuffled its copy of it
ListAfterShuffle(p) == pool

MaxRounds      == 4      \* while attempts < 4
BackoffCap     == 6      \* min(2 ** attempts, 6)
ConnectTimeout == 5      \* httpx.Timeout(connect=5.0, ...)
ReadTimeout    == 20     \* httpx.Timeout(..., read=20.0, ...)

RECURSIVE Pow2(_)
Pow2(n) == IF n = 0 THEN 1 ELSE 2 * Pow2(n - 1)
Min(a, b) == IF a <= b THEN a ELSE b

\* variant: a constant 2 s pause, the exponent dropped
Backoff_Constant(attempts) == Min(2, BackoffCap)

\* asyncio.sleep(min(2 ** attempts, 6)), attempts already incremented
Backoff(attempts) == Min(Pow2(attempts), BackoffCap)

NoExc == [ep |-> "", kind |-> "None"]
ExcStr(e) == IF e = NoExc THEN "None" ELSE e.kind \o " for " \o e.ep

Ex0 == [endpoints |-> <<>>, attempts |-> 0, idx |-> 0, last_exc |-> NoExc,
        nreq |-> 0, slept |-> 0, sleepfor |-> 0, src |-> "", rounds |-> <<>>,
        log |-> <<>>, els |-> 0, seen |-> NoExc]

\* entry of overpass_query: copy, shuffle, and issue the first request
ExStart(p) ==
    [Ex0 EXCEPT !.endpoints = Shuffled(p), !.idx = 1, !.nreq = 1, !.rounds = <<1>>]

\* the ways a request can fail: no answer in time, an answer whose status
\* raise_for_status() rejects, a connection that breaks
FailureKinds == {"timeout", "status", "transport"}

\* variant: except (httpx.TimeoutException, httpx.TransportError)
AbsorbedKinds_NoStatus == {"timeout", "transport"}

\* the kinds of answer the except clause of overpass_query absorbs
AbsorbedKinds == {"timeout", "status", "transport"}
\* a 2xx answer: a JSON object, a body json() cannot decode, a JSON non-object
OkKinds       == {"ok", "badjson", "nondict"}
ReplyKinds    == AbsorbedKinds \cup OkKinds

Replies ==
    [kind : FailureKinds \cup {"badjson", "nondict"}, n : {0}]
        \cup [kind : {"ok"}, n : 0..MaxElems]

\* how long an answer of that kind can take
Latencies(o) ==
    IF o.kind = "timeout" THEN {ConnectTimeout, ReadTimeout} ELSE 0..MaxLatency

\* variant: the except clause breaks out of the for loop, so every failure
\* ends the round and is followed by the backoff
ExFail_BreaksRound(ex, kind) ==
    [ex EXCEPT !.last_exc = [ep |-> ex.endpoints[ex.idx], kind |-> kind],
               !.idx = 0, !.attempts = @ + 1,
               !.sleepfor = Min(Pow2(ex.attempts + 1), BackoffCap),
               !.log = Append(@, "fail")]

\* variant: last_exc keeps the first failure of the call
ExFail_KeepsFirst(ex, kind) ==
    LET e == IF ex.last_exc = NoExc THEN [ep |-> ex.endpoints[ex.idx], kind |-> kind]
             ELSE ex.last_exc
    IN  IF ex.idx < NEndpoints
        THEN [ex EXCEPT !.last_exc = e, !.idx = @ + 1, !.nreq = @ + 1,
                        !.rounds = Append(@, ex.attempts + 1), !.log = Append(@, "fail")]
        ELSE [ex EXCEPT !.last_exc = e, !.idx = 0, !.attempts = @ + 1,
                        !.sleepfor = Backoff(ex.attempts + 1), !.log = Append(@, "fail")]

\* except (...) as e: last_exc = e; continue -- and the end of the for loop
ExFail(ex, kind) ==
    LET e == [ep |-> ex.endpoints[ex.idx], kind |-> kind]
    IN  IF ex.idx < NEndpoints
        THEN [ex EXCEPT !.last_exc = e, !.idx = @ + 1, !.nreq = @ + 1,
                        !.rounds = Append(@, ex.attempts + 1), !.log = Append(@, "fail")]
        ELSE [ex EXCEPT !.last_exc = e, !.idx = 0, !.attempts = @ + 1,
                        !.sleepfor = Backoff(ex.attempts + 1), !.log = Append(@, "fail")]

\* variant: while attempts < 3
ExAgain_ThreeRounds(ex) == ex.attempts < 3

\* does the while loop run another round once the sleep is over
ExAgain(ex) == ex.attempts < MaxRounds

\* variant: the next round starts at the second endpoint
ExWake_SkipsFirst(ex) ==
    IF ExAgain(ex)
    THEN [ex EXCEPT !.slept = @ + ex.sleepfor, !.sleepfor = 0, !.idx = 2, !.nreq = @ + 1,
                    !.rounds = Append(@, ex.attempts + 1)]
    ELSE [ex EXCEPT !.slept = @ + ex.sleepfor, !.sleepfor = 0]

\* the end of asyncio.sleep: the next round's first request
ExWake(ex) ==
    IF ExAgain(ex)
    THEN [ex EXCEPT !.slept = @ + ex.sleepfor, !.sleepfor = 0, !.idx = 1, !.nreq = @ + 1,
                    !.rounds = Append(@, ex.attempts + 1)]
    ELSE [ex EXCEPT !.slept = @ + ex.sleepfor, !.sleepfor = 0]

ExhaustedMsg(ex) ==
    "Overpass query failed across mirrors. Last error: " \o ExcStr(ex.last_exc)

----------------------------------------------------------------------------
(* Handlers after the upstream answered.                                    *)

NatStr(n) == CASE n = 0 -> "0" [] n = 1 -> "1" [] n = 2 -> "2" [] n = 3 -> "3" [] OTHER -> "many"
IntVal(s) == CASE s = "1" -> 1 [] s = "7" -> 7 [] s = "10" -> 10 [] s = "46" -> 46
               [] s = "500" -> 500 [] s = "512" -> 512 [] s = "1500" -> 1500

\* variant: the no-results text names the default radius
OsmSearchText_DefaultRadius(q, n) ==
    IF n = 0
    THEN <<"No OSM restaurants found near ", q.lat, ", ", q.lon, " within ",
           DEFAULT_SEARCH_RADIUS_M, " m.">>
    ELSE <<"OSM restaurants near ", q.lat, ", ", q.lon, " (radius ", q.radius_m, " m):",
           NatStr(Min(n, IntVal(q.limit))), " entries">>

\* tool_search_osm_restaurants from `els = data.get("elements", [])` on
OsmSearchText(q, n) ==
    IF n = 0
    THEN <<"No OSM restaurants found near ", q.lat, ", ", q.lon, " within ", q.radius_m, " m.">>
    ELSE <<"OSM restaurants near ", q.lat, ", ", q.lon, " (radius ", q.radius_m, " m):",
           NatStr(Min(n, IntVal(q.limit))), " entries">>

\* tool_get_osm_place_details from `els = data.get("elements", [])` on
OsmDetailsText(q, n) ==
    IF n = 0
    THEN <<"No element found for ", q.osm_type, " ", q.osm_id, ".">>
    ELSE <<"Details for ", "elements[0]", " Type/ID: ", q.osm_type, " ", q.osm_id>>

OsmText(name, q, n) ==
    IF name = "search_osm_restaurants" THEN OsmSearchText(q, n) ELSE OsmDetailsText(q, n)

\* except Exception as e: return f"Error querying Overpass: {e}"
OsmErrorText(detail) == <<"Error querying Overpass: ", detail>>

JsonDecodeError == "Expecting value: line 1 column 1 (char 0)"

\* the except clauses of the two handlers around `await overpass_query(...)`:
\* except httpx.HTTPStatusError first, then except Exception
OsmCaught(sv, name, kind, detail) ==
    IF kind = "status"
    THEN <<"Overpass error ", "status",
           IF name = "get_osm_place_details" THEN "."
           ELSE IF sv = Joint THEN ". Reduce radius/limit and try again."
           ELSE ". Try again later or reduce radius.">>
    ELSE OsmErrorText(detail)

----------------------------------------------------------------------------
(* The dispatcher: call_tool and its timeout wrapper.                       *)

\* variant: get_osm_place_details is given the 25 s of the search tool
Budget_DetailsAsSearch(sv, name) ==
    CASE sv \in {Joint, Overpass} /\ name = "get_current_time"        -> 5
      [] sv \in {Joint, Overpass} /\ name = "search_osm_restaurants"  -> 25
      [] sv \in {Joint, Overpass} /\ name = "get_osm_place_details"   -> 25
      [] sv = Joint /\ name = "translate_ja_to_en"                     -> 60
      [] sv = Joint /\ name = "ping"                                   -> 3
      [] OTHER -> 0

\* the seconds passed to _with_timeout / _with_overall_timeout; 0: no wrapper
Budget(sv, name) ==
    CASE sv \in {Joint, Overpass} /\ name = "get_current_time"        -> 5
      [] sv \in {Joint, Overpass} /\ name = "search_osm_restaurants"  -> 25
      [] sv \in {Joint, Overpass} /\ name = "get_osm_place_details"   -> 20
      [] sv = Joint /\ name = "translate_ja_to_en"                     -> 60
      [] sv = Joint /\ name = "ping"                                   -> 3
      [] OTHER -> 0

TimeoutMsg(sv, name) ==
    CASE name = "get_current_time"       -> <<"Timed out getting current time.">>
      [] name = "search_osm_restaurants" ->
            IF sv = Joint THEN <<"Timed out searching OSM restaurants.">>
            ELSE <<"Timed out searching OSM restaurants. Try a smaller radius/limit.">>
      [] name = "get_osm_place_details"  -> <<"Timed out getting OSM place details.">>
      [] name = "translate_ja_to_en"     -> <<"Timed out translating text.">>
      [] name = "ping"                   -> <<"Timed out pinging.">>
      [] OTHER -> <<"Timed out.">>

UnknownToolText(name)       == <<"Unknown tool: ", PyStr(name)>>
\* variant: the rendering names the dispatcher, not the tool
UnhandledText_NoName(name, detail) == <<"Unhandled error in tool '", "call_tool", "': ", detail>>
UnhandledText(name, detail) == <<"Unhandled error in tool '", PyStr(name), "': ", detail>>

\* variant: the chains of joint_server and mcp_bullshit lack their last branch
Handled_LastBranchMissing(sv) ==
    CASE sv = Joint ->
            {"get_current_time", "search_osm_restaurants", "get_osm_place_details",
             "translate_ja_to_en"}
      [] sv = Overpass ->
            {"get_current_time", "search_osm_restaurants", "get_osm_place_details"}
      [] sv = TripAdvisor ->
            {"get_current_time", "search_tripadvisor_restaurants", "get_restaurant_details"}
      [] sv = Translator -> {"translate_ja_to_en"}

\* the names the if/elif chain of each call_tool compares against
Handled(sv) ==
    CASE sv = Joint ->
            {"get_current_time", "search_osm_restaurants", "get_osm_place_details",
             "translate_ja_to_en", "ping"}
      [] sv = Overpass ->
            {"get_current_time", "search_osm_restaurants", "get_osm_place_details"}
      [] sv = TripAdvisor ->
            {"get_current_time", "search_tripadvisor_restaurants", "get_restaurant_details",
             "get_restaurant_reviews"}
      [] sv = Translator -> {"translate_ja_to_en"}

\* mcp_bullshit: the key check, then the arguments, then the first request
env_key_required ==
    <<"TripAdvisor API key missing. Set environment variable TRIPADVISOR_API_KEY.">>

tool_search_tripadvisor_restaurants(arguments) ==
    IF api_key = NoneVal THEN Return(env_key_required)
    ELSE LET lat == FloatArg(arguments, "latitude")
             lon == FloatArg(arguments, "longitude")
             limit == IntOpt(arguments, "limit", "10")
         IN  IF lat.kind = "raise" THEN lat
             ELSE IF lon.kind = "raise" THEN lon
             ELSE IF limit.kind = "raise" THEN limit
             ELSE Suspend([NoQ EXCEPT !.lat = lat.text[1], !.lon = lon.text[1],
                                      !.limit = limit.text[1]])

tool_get_restaurant_details(arguments) ==
    IF api_key = NoneVal THEN Return(env_key_required)
    ELSE LET location_id == Subscript(arguments, "location_id")
         IN  IF location_id.kind = "raise" THEN location_id
             ELSE Suspend([NoQ EXCEPT !.location_id = PyStr(location_id.text[1])])

\* variant: the arguments are read before the key check
tool_get_restaurant_reviews_ArgsFirst(arguments) ==
    LET location_id == Subscript(arguments, "location_id")
        limit == IntOpt(arguments, "limit", "5")
    IN  IF location_id.kind = "raise" THEN location_id
        ELSE IF limit.kind = "raise" THEN limit
        ELSE IF api_key = NoneVal THEN Return(env_key_required)
        ELSE Suspend([NoQ EXCEPT !.location_id = PyStr(location_id.text[1]),
                                 !.limit = limit.text[1]])

tool_get_restaurant_reviews(arguments) ==
    IF api_key = NoneVal THEN Return(env_key_required)
    ELSE LET location_id == Subscript(arguments, "location_id")
             limit == IntOpt(arguments, "limit", "5")
         IN  IF location_id.kind = "raise" THEN location_id
             ELSE IF limit.kind = "raise" THEN limit
             ELSE Suspend([NoQ EXCEPT !.location_id = PyStr(location_id.text[1]),
                                      !.limit = limit.text[1]])

\* japanese_translator_http_server.call_tool's only branch (the model is
\* loaded at import; max_length is passed on unconverted)
translator_translate(arguments, g, genok) ==
    LET text == Subscript(arguments, "text")
        max_length == Get(arguments, "max_length", "512")
    IN  IF text.kind = "raise" THEN text
        ELSE IF text.text[1] \in Numbers \cup {ListVal}
        THEN Raise("text input must be of type str")
        ELSE IF max_length \notin Numbers \cup {"512"}
        THEN Raise("max_length must be a number")
        ELSE IF ~genok THEN RaiseAfter("generate failed", g)
        ELSE ReturnAfter(<<"translation of ", text.text[1]>>, g)

\* the handler the if/elif chain selects, run up to its first suspension
Handler(sv, name, arguments, g, genok) ==
    CASE name = "get_current_time"       -> tool_get_current_time(sv, arguments)
      [] name = "search_osm_restaurants" -> tool_search_osm_restaurants(arguments)
      [] name = "get_osm_place_details"  -> tool_get_osm_place_details(arguments)
      [] name = "translate_ja_to_en" /\ sv = Joint -> tool_translate_ja_to_en(arguments, g, genok)
      [] name = "translate_ja_to_en" /\ sv # Joint -> translator_translate(arguments, g, genok)
      [] name = "ping"                   -> tool_ping(arguments)
      [] name = "search_tripadvisor_restaurants" -> tool_search_tripadvisor_restaurants(arguments)
      [] name = "get_restaurant_details" -> tool_get_restaurant_details(arguments)
      [] name = "get_restaurant_reviews" -> tool_get_restaurant_reviews(arguments)

\* what call_tool hands back: a one-item text list, None, or an exception
TextOut(text) == [kind |-> "text", text |-> text]
NoneOut       == [kind |-> "none", text |-> <<>>]
RaisedOut(d)  == [kind |-> "raised", text |-> <<d>>]
NoOut         == [kind |-> "pending", text |-> <<>>]

\* variant: mcp_bullshit's call_tool without its try/except
HasTryExcept_NotTripAdvisor(sv) == sv \in {Joint, Overpass}

\* does the server's call_tool wrap its if/elif chain in try/except Exception
HasTryExcept(sv) == sv \in {Joint, Overpass, TripAdvisor}

\* call_tool's result for a name no branch matches
UnknownOut(sv, name) ==
    IF sv = Translator THEN NoneOut ELSE TextOut(UnknownToolText(name))

\* call_tool's result when the selected handler raised
RaiseOut(sv, name, detail) ==
    IF HasTryExcept(sv) THEN TextOut(UnhandledText(name, detail)) ELSE RaisedOut(detail)

----------------------------------------------------------------------------
(* JSON-RPC front end of joint_server: JSONRPCRequest, handle_streamable_http *)

\* a posted body: unparsable, a JSON non-object, or an object with these members
NotJson   == [json |-> FALSE, obj |-> FALSE, jsonrpc |-> Absent, id |-> Absent,
              method |-> Absent, params |-> [kind |-> "absent", name |-> Absent, arguments |-> NoArgs]]
NotObject == [NotJson EXCEPT !.json = TRUE]
NoParams   == [kind |-> "absent", name |-> Absent, arguments |-> NoArgs]
NullParams == [kind |-> "null", name |-> Absent, arguments |-> NoArgs]
ListParams == [kind |-> "list", name |-> Absent, arguments |-> NoArgs]
Params(name, arguments) == [kind |-> "dict", name |-> name, arguments |-> arguments]
Envelope(jsonrpc, id, method, params) ==
    [json |-> TRUE, obj |-> TRUE, jsonrpc |-> jsonrpc, id |-> id, method |-> method,
     params |-> params]

IntLits  == {"1", "2", "500"}
Marks    == {Absent, Null, NoneVal, ListVal, TrueVal}
IsStr(v) == v \notin Marks \cup Numbers \cup IntLits
IsInt(v) == v \in IntLits

\* pydantic's validation of JSONRPCRequest(**body).  Fields are validated in
\* pydantic's default (lax) mode: a str field takes only a string, a dict
\* field only a mapping, and an int field takes an int or a bool, bool being
\* a subclass of int.
Validates(body) ==
    /\ body.json
    /\ body.obj
    /\ body.jsonrpc \in {Absent, Null} \/ IsStr(body.jsonrpc)
    /\ body.id \in {Absent, Null, TrueVal} \/ IsInt(body.id) \/ IsStr(body.id)
    /\ IsStr(body.method)
    /\ body.params.kind \in {"absent", "null", "dict"}

\* a validated member: absent or null becomes None
Member(v) == IF v \in {Absent, Null} THEN NoneVal ELSE v

\* the validated id: the int member of the union turns a bool into the int
\* it stands for
IdMember(v) == IF v = TrueVal THEN "1" ELSE Member(v)

\* json.dumps of a Python value that is None, an int or a str
JsonOf(v) == IF v = NoneVal THEN Null ELSE v

NoResult == [kind |-> "none", content |-> <<>>, tools |-> <<>>]
NoResp   == [status |-> 0, keys |-> {}, id |-> Null, code |-> 0, result |-> NoResult]

ParseErrorCode     == 0 - 32700
MethodNotFoundCode == 0 - 32601

ParseErrorResp ==
    [status |-> 200, keys |-> {"jsonrpc", "id", "error"}, id |-> Null,
     code |-> ParseErrorCode, result |-> NoResult]
\* variant: the method-not-found answer sent with HTTP status 404
ErrorResp_Status404(rid, code) ==
    [status |-> 404, keys |-> {"jsonrpc", "id", "error"}, id |-> JsonOf(rid),
     code |-> code, result |-> NoResult]
ErrorResp(rid, code) ==
    [status |-> 200, keys |-> {"jsonrpc", "id", "error"}, id |-> JsonOf(rid),
     code |-> code, result |-> NoResult]
\* variant: the result envelope built without the request's id
ResultResp_NullId(rid, result) ==
    [status |-> 200, keys |-> {"jsonrpc", "id", "result"}, id |-> Null,
     code |-> 0, result |-> result]
ResultResp(rid, result) ==
    [status |-> 200, keys |-> {"jsonrpc", "id", "result"}, id |-> JsonOf(rid),
     code |-> 0, result |-> result]
\* an exception leaving the endpoint: the framework's 500 page
ServerErrorResp ==
    [status |-> 500, keys |-> {}, id |-> Null, code |-> 0, result |-> NoResult]

InitializeResult == [kind |-> "init", content |-> <<>>, tools |-> <<>>]
\* variant: list_tools() extends a list kept between calls, so a second
\* tools/list returns every descriptor twice
ToolsResult_Accumulates ==
    [kind |-> "tools", content |-> <<>>,
     tools |-> IF \E r \in DOMAIN t : t[r].pc = "done" /\ t[r].method = "tools/list"
               THEN list_tools(Joint) \o list_tools(Joint) ELSE list_tools(Joint)]
\* [_tool_to_dict(t) for t in await list_tools()]
ToolsResult      == [kind |-> "tools", content |-> <<>>, tools |-> list_tools(Joint)]
\* [{"type": "text", "text": c.text} for c in content]
ContentResult(out) ==
    [kind |-> "content", content |-> <<[type |-> "text", text |-> out.text]>>, tools |-> <<>>]

\* variant: an unknown tool reported as a JSON-RPC error envelope
CallResp_UnknownAsError(rid, out) ==
    IF out.kind # "text" THEN ServerErrorResp
    ELSE IF out.text[1] = "Unknown tool: " THEN ErrorResp(rid, MethodNotFoundCode)
    ELSE ResultResp(rid, ContentResult(out))

\* the response handle_streamable_http builds once call_tool has returned
CallResp(rid, out) ==
    IF out.kind = "text" THEN ResultResp(rid, ContentResult(out)) ELSE ServerErrorResp

\* params = req.params or {}; name = params.get("name")
CallName(params) ==
    IF params.kind = "dict" THEN Member(params.name) ELSE NoneVal
\* variant: arguments = params.get("arguments"), no fallback to {}
CallArguments_NoFallback(params) ==
    IF params.kind = "dict" THEN params.arguments ELSE NullArgs
\* arguments = params.get("arguments") or {}
CallArguments(params) ==
    IF params.kind = "dict" /\ params.arguments.kind \in {"dict", "list"}
    THEN params.arguments
    ELSE Dict(EmptyDict)

----------------------------------------------------------------------------
(* Request slots.                                                           *)

Ta0 == [n |-> 0, i |-> 0, ids |-> FALSE, enriched |-> <<>>]

\* the body of a /health or /info response; nothing for the other requests
NoPage == [status |-> "", model_ready |-> FALSE, model_error |-> Null, tools |-> <<>>,
           keys |-> {}]

Idle ==
    [pc |-> "idle", body |-> NotJson, rid |-> NoneVal, method |-> "",
     name |-> "", arguments |-> NoArgs, q |-> NoQ, elapsed |-> 0, ex |-> Ex0,
     upstream |-> "none", out |-> NoOut, resp |-> NoResp, nres |-> 0,
     invoked |-> FALSE, fired |-> FALSE, ta |-> Ta0, via |-> "",
     waited |-> 0, page |-> NoPage]

AllSlots == {1, 2}

----------------------------------------------------------------------------
(* Inputs: the argument mappings and envelopes the clients send.            *)

Valid(k) ==
    CASE k = "timezone" -> "UTC"     [] k = "latitude" -> "46.9"  [] k = "longitude" -> "7.4"
      [] k = "limit" -> "1"          [] k = "radius_m" -> "500"   [] k = "osm_type" -> "node"
      [] k = "osm_id" -> "1"         [] k = "text" -> "konnichiwa" [] k = "max_length" -> "500"
      [] k = "msg" -> "hi"           [] k = "location_id" -> "loc1"
Bad(k) ==
    IF k \in {"latitude", "longitude", "limit", "radius_m", "osm_id", "max_length"}
    THEN "abc" ELSE IF k = "osm_type" THEN "planet" ELSE ListVal

Properties(name) ==
    CASE name = "get_current_time" -> {"timezone"}
      [] name = "search_osm_restaurants" -> {"latitude", "longitude", "limit", "radius_m"}
      [] name = "get_osm_place_details" -> {"osm_type", "osm_id"}
      [] name = "translate_ja_to_en" -> {"text", "max_length"}
      [] name = "ping" -> {"msg"}
      [] name = "search_tripadvisor_restaurants" -> {"latitude", "longitude", "limit"}
      [] name = "get_restaurant_details" -> {"location_id"}
      [] name = "get_restaurant_reviews" -> {"location_id", "limit"}
      [] OTHER -> {}

\* every property valid; one property missing; one property of the wrong shape
ArgDicts(name) ==
    LET P == Properties(name)
    IN  {[k \in P |-> Valid(k)]}
          \cup {[k \in P \ {m} |-> Valid(k)] : m \in P}
          \cup {[k \in P |-> IF k = m THEN Bad(k) ELSE Valid(k)] : m \in P}
          \cup (IF name = "get_current_time"
                THEN {[k \in P |-> "Europe/Rome"], [k \in P |-> "Mars/Phobos"]} ELSE {})
          \cup (IF name = "search_osm_restaurants"
                THEN {[k \in P |-> CASE k = "latitude" -> "1" [] k = "longitude" -> "500"
                                      [] OTHER -> Valid(k)]}
                ELSE {})

ArgCases(name) == {Dict(kv) : kv \in ArgDicts(name)} \cup {NotDict}

\* the names clients call: those some server advertises, and one nobody does
AllNames == UNION {Catalogue(sv) : sv \in Servers} \cup {"foo"}

Ids     == {Absent, Null, "1", "2", "req-a", ListVal, TrueVal}
Methods == {"initialize", "tools/list", "tools/call", "resources/list"}

\* envelopes that differ from a well-formed one in one member
FrontBodies ==
    {NotJson, NotObject}
      \cup {Envelope("2.0", id, m, NoParams) : id \in Ids, m \in Methods}
      \cup {Envelope("2.0", "1", m, NoParams) : m \in {Absent, Null, ListVal}}
      \cup {Envelope(j, "1", "initialize", NoParams) : j \in {Absent, Null, ListVal}}
      \cup {Envelope("2.0", "1", m, p) : m \in Methods, p \in {NullParams, ListParams}}

CallNames == Catalogue(Joint) \cup {"foo", Absent, ListVal}

\* tools/call envelopes: valid arguments, {}, a non-mapping, none, null
CallArgs(n) ==
    {Dict([k \in Properties(n) |-> Valid(k)]), Dict(EmptyDict), NotDict, NoArgs, NullArgs}

CallBodies ==
    UNION {{Envelope("2.0", id, "tools/call", Params(n, a)) : a \in CallArgs(n)} :
           id \in {Null, "1"}, n \in CallNames}
      \cup {Envelope("2.0", TrueVal, "tools/call", Params("ping", Dict(EmptyDict)))}

Bodies == FrontBodies \cup CallBodies

----------------------------------------------------------------------------
(* module_3_mcp/mcp_server.py: the calculator tool.  Numbers are integers;  *)
(* a result is the fraction num/den in lowest terms, den > 0.               *)

Nums      == (0 - MaxNum)..MaxNum
Operators == {"+", "-", "*", "/", "%", "**", "", "add"}

Abs(n) == IF n < 0 THEN 0 - n ELSE n

RECURSIVE Gcd(_, _)
Gcd(a, b) == IF b = 0 THEN a ELSE Gcd(b, a % b)

Value(n)          == [kind |-> "return", num |-> n, den |-> 1, exc |-> "", msg |-> ""]
ValueError(msg)   == [kind |-> "raise", num |-> 0, den |-> 1, exc |-> "ValueError", msg |-> msg]
ZeroDivisionError == [kind |-> "raise", num |-> 0, den |-> 1, exc |-> "ZeroDivisionError",
                      msg |-> "float division by zero"]

\* num1 / num2 for num2 # 0
Quotient(num1, num2) ==
    LET g == Gcd(Abs(num1), Abs(num2))
        sign == IF num2 < 0 THEN 0 - 1 ELSE 1
    IN  [kind |-> "return", num |-> (sign * num1) \div g, den |-> Abs(num2) \div g,
         exc |-> "", msg |-> ""]

\* variant: the "/" branch without its test of num2
calculator_NoZeroTest(num1, num2, operator) ==
    CASE operator = "+" -> Value(num1 + num2)
      [] operator = "-" -> Value(num1 - num2)
      [] operator = "*" -> Value(num1 * num2)
      [] operator = "/" -> IF num2 = 0 THEN ZeroDivisionError ELSE Quotient(num1, num2)
      [] OTHER -> ValueError("Unsupported operator: " \o operator
                                \o ". Use one of '+', '-', '*', '/'.")

calculator(num1, num2, operator) ==
    CASE operator = "+" -> Value(num1 + num2)
      [] operator = "-" -> Value(num1 - num2)
      [] operator = "*" -> Value(num1 * num2)
      [] operator = "/" ->
            IF num2 = 0 THEN ValueError("Division by zero is not allowed.")
            ELSE Quotient(num1, num2)
      [] OTHER -> ValueError("Unsupported operator: " \o operator
                                \o ". Use one of '+', '-', '*', '/'.")

NoOutcome == [kind |-> "none", num |-> 0, den |-> 1, exc |-> "", msg |-> ""]
NotCalled == [pc |-> "idle", num1 |-> 0, num2 |-> 0, operator |-> "", out |-> NoOutcome]

\* the calls FastMCP hands to calculator
CalcCalls ==
    [pc : {"called"}, num1 : Nums, num2 : Nums, operator : Operators, out : {NoOutcome}]

\* calculator(num1, num2, operator) runs
Calculate ==
    /\ calc.pc = "called"
    /\ calc' = [calc EXCEPT !.pc = "done",
                            !.out = calculator(calc.num1, calc.num2, calc.operator)]
    /\ UNCHANGED <<Process, pool, sse, t, chat>>

----------------------------------------------------------------------------
(* module_3_mcp/ollama_client.py: the loop of main().  A message is its     *)
(* role, the names of the tool calls it requests, and for a tool message    *)
(* the tool whose output it carries.                                        *)

LocalTools == {"calculator", "current_datetime"}

Message(role, tool_calls, content) ==
    [role |-> role, tool_calls |-> tool_calls, content |-> content]

system_msg == Message("system", <<>>, "")

\* the tool_calls a model answer can hold: none, one call, or two
ToolCallLists ==
    {<<>>} \cup {<<a>> : a \in LocalTools} \cup {<<a, b>> : a, b \in LocalTools}

\* asked: for each ollama.chat call of the turn, whether tools were passed;
\* executed: the tools session.call_tool was called with in the turn
NotStarted ==
    [pc |-> "off", messages |-> <<>>, turns |-> 0, asked |-> <<>>, executed |-> <<>>]

\* messages = [system_msg]; the loop is at input()
Started == [NotStarted EXCEPT !.pc = "input", !.messages = <<system_msg>>]

\* input() returns a question: it is appended and ollama.chat is called with
\* tools=tools
UserTurn ==
    /\ chat.pc = "input"
    /\ chat.turns < MaxTurns
    /\ chat' = [chat EXCEPT !.pc = "first", !.turns = @ + 1,
                            !.messages = Append(@, Message("user", <<>>, "")),
                            !.asked = <<TRUE>>, !.executed = <<>>]
    /\ UNCHANGED <<Process, pool, sse, t, calc>>

\* input() returns exit, quit, exit() or quit(): break
UserExit ==
    /\ chat.pc = "input"
    /\ chat' = [chat EXCEPT !.pc = "exited"]
    /\ UNCHANGED <<Process, pool, sse, t, calc>>

\* the first ollama.chat returned a message requesting tool_calls: it is
\* appended; without tool calls the turn is over, otherwise session.call_tool
\* is called with tool_calls[0]
FirstChat(tool_calls) ==
    /\ chat.pc = "first"
    /\ chat' = [chat EXCEPT !.messages = Append(@, Message("assistant", tool_calls, "")),
                            !.pc = IF tool_calls = <<>> THEN "input" ELSE "tool",
                            !.executed = IF tool_calls = <<>> THEN @
                                         ELSE Append(@, tool_calls[1])]
    /\ UNCHANGED <<Process, pool, sse, t, calc>>

\* session.call_tool returned: the tool message is appended and ollama.chat
\* is called again, this time without tools
ToolReturned ==
    /\ chat.pc = "tool"
    /\ chat' = [chat EXCEPT !.messages =
                                Append(@, Message("tool", <<>>, chat.executed[Len(chat.executed)])),
                            !.pc = "final",
                            !.asked = Append(@, FALSE)]
    /\ UNCHANGED <<Process, pool, sse, t, calc>>

\* variant: tool calls of the second answer are executed as well
FinalChat_Chains(tool_calls) ==
    /\ chat.pc = "final"
    /\ chat' = [chat EXCEPT !.messages = Append(@, Message("assistant", tool_calls, "")),
                            !.pc = IF tool_calls = <<>> THEN "input" ELSE "tool",
                            !.executed = IF tool_calls = <<>> THEN @
                                         ELSE Append(@, tool_calls[1])]
    /\ UNCHANGED <<Process, pool, sse, t, calc>>

\* the second ollama.chat returned: its message is appended whatever it
\* holds, and the loop is back at input()
FinalChat(tool_calls) ==
    /\ chat.pc = "final"
    /\ chat' = [chat EXCEPT !.messages = Append(@, Message("assistant", tool_calls, "")),
                            !.pc = "input"]
    /\ UNCHANGED <<Process, pool, sse, t, calc>>

\* ollama.chat or session.call_tool raised: the exception leaves main()
ChatRaised ==
    /\ chat.pc \in {"first", "tool", "final"}
    /\ chat' = [chat EXCEPT !.pc = "raised"]
    /\ UNCHANGED <<Process, pool, sse, t, calc>>

----------------------------------------------------------------------------
(* Startup.                                                                 *)

\* no transport made, no stream opened, no message posted
Sse0 == [transports |-> <<>>, streams |-> <<>>, posts |-> <<>>]

Init ==
    /\ server \in Servers
    /\ phase = "startup"
    /\ tokenizer = "None"
    /\ model = "None"
    /\ model_ready = FALSE
    /\ model_error = NoneVal
    /\ api_key \in (IF server = TripAdvisor THEN {NoneVal, "key"} ELSE {NoneVal})
    /\ loads = 0
    /\ pool = OVERPASS_ENDPOINTS
    /\ sse = Sse0
    /\ t = [r \in AllSlots |-> Idle]
    /\ calc = NotCalled
    /\ chat = NotStarted

LoadOutcomes == {"ok", "tokenizer fails", "model fails"}

\* variant: load_model_on_startup without its except clause
Loaded_Propagates(o) ==
    CASE o = "ok" ->
            [tokenizer |-> "loaded", model |-> "loaded", ready |-> TRUE, error |-> NoneVal,
             raised |-> FALSE]
      [] o = "tokenizer fails" ->
            [tokenizer |-> "None", model |-> "None", ready |-> FALSE, error |-> NoneVal,
             raised |-> TRUE]
      [] o = "model fails" ->
            [tokenizer |-> "loaded", model |-> "None", ready |-> FALSE, error |-> NoneVal,
             raised |-> TRUE]

\* variant: _model_ready is set once the tokenizer is there and the except
\* clause leaves it as it is
Loaded_ReadyAfterTokenizer(o) ==
    CASE o = "ok" ->
            [tokenizer |-> "loaded", model |-> "loaded", ready |-> TRUE, error |-> NoneVal,
             raised |-> FALSE]
      [] o = "tokenizer fails" ->
            [tokenizer |-> "None", model |-> "None", ready |-> FALSE,
             error |-> "OSError: tokenizer", raised |-> FALSE]
      [] o = "model fails" ->
            [tokenizer |-> "loaded", model |-> "None", ready |-> TRUE,
             error |-> "OSError: model", raised |-> FALSE]

\* load_model_on_startup: the globals after the try/except, and whether an
\* exception left the function
Loaded(o) ==
    CASE o = "ok" ->
            [tokenizer |-> "loaded", model |-> "loaded", ready |-> TRUE, error |-> NoneVal,
             raised |-> FALSE]
      [] o = "tokenizer fails" ->
            [tokenizer |-> "None", model |-> "None", ready |-> FALSE,
             error |-> "OSError: tokenizer", raised |-> FALSE]
      [] o = "model fails" ->
            [tokenizer |-> "loaded", model |-> "None", ready |-> FALSE,
             error |-> "OSError: model", raised |-> FALSE]

\* variant: the load is retried whenever the model is not ready
LoadDue_RetryWhenNotReady == phase = "startup" \/ ~model_ready

\* the load is attempted by the startup part of lifespan, and only there
LoadDue == phase = "startup"

\* lifespan: await load_model_on_startup(); yield -- an exception before the
\* yield fails the startup and the server never serves
LoadModel(o) ==
    /\ LoadDue
    /\ server = Joint
    /\ LET g == Loaded(o)
       IN  /\ tokenizer' = g.tokenizer
           /\ model' = g.model
           /\ model_ready' = g.ready
           /\ model_error' = g.error
           /\ phase' = IF g.raised THEN "crashed" ELSE "serving"
    /\ loads' = loads + 1
    /\ UNCHANGED <<server, api_key, pool, sse, t, calc, chat>>

\* the servers without a lifespan serve as soon as the module is imported;
\* japanese_translator_http_server loads its model at import
Import ==
    /\ phase = "startup"
    /\ server # Joint
    /\ tokenizer' = IF server = Translator THEN "loaded" ELSE tokenizer
    /\ model' = IF server = Translator THEN "loaded" ELSE model
    /\ phase' = "serving"
    /\ UNCHANGED <<server, model_ready, model_error, api_key, loads, pool, sse, t, calc, chat>>


\* variant: requests are served while lifespan is still loading
Accepting_DuringStartup == TRUE

\* the server handles requests once the startup part of lifespan is over
Accepting == phase = "serving"

----------------------------------------------------------------------------
(* JSON-RPC endpoint.                                                       *)

\* a client POSTs a body to "/"
Post(r, b) ==
    /\ Accepting
    /\ server = Joint
    /\ t[r].pc = "idle"
    /\ t' = [t EXCEPT ![r] = [@ EXCEPT !.pc = "posted", !.body = b, !.via = "rpc"]]
    /\ UNCHANGED Globals

\* req = JSONRPCRequest(**body)
Parsed(body) ==
    [jsonrpc |-> Member(body.jsonrpc), id |-> IdMember(body.id), method |-> body.method,
     params |-> body.params]

\* the slot after handle_streamable_http has run up to its return or to call_tool
Routed(rec) ==
    IF ~Validates(rec.body)
    THEN [rec EXCEPT !.pc = "done", !.resp = ParseErrorResp]
    ELSE LET req == Parsed(rec.body)
             rid == req.id
         IN  CASE req.method = "initialize" ->
                    [rec EXCEPT !.pc = "done", !.rid = rid, !.method = req.method,
                                !.resp = ResultResp(rid, InitializeResult)]
               [] req.method = "tools/list" ->
                    [rec EXCEPT !.pc = "done", !.rid = rid, !.method = req.method,
                                !.resp = ResultResp(rid, ToolsResult)]
               [] req.method = "tools/call" ->
                    [rec EXCEPT !.pc = "call", !.rid = rid, !.method = req.method,
                                !.name = CallName(req.params),
                                !.arguments = CallArguments(req.params)]
               [] OTHER ->
                    [rec EXCEPT !.pc = "done", !.rid = rid, !.method = req.method,
                                !.resp = ErrorResp(rid, MethodNotFoundCode)]

\* variant: the initialize branch resets the model state
HandleHttp_InitializeResets(r) ==
    /\ t[r].pc = "posted"
    /\ t[r].via = "rpc"
    /\ t' = [t EXCEPT ![r] = Routed(@)]
    /\ model_ready' = IF Routed(t[r]).method = "initialize" THEN FALSE ELSE model_ready
    /\ UNCHANGED <<server, phase, tokenizer, model, model_error, api_key, loads, pool, sse,
                    calc, chat>>

HandleHttp(r) ==
    /\ t[r].pc = "posted"
    /\ t[r].via = "rpc"
    /\ t' = [t EXCEPT ![r] = Routed(@)]
    /\ UNCHANGED Globals

\* the names list_tools() returns, in its order
ToolNames == [i \in 1..Len(list_tools(Joint)) |-> list_tools(Joint)[i].name]

\* variant: the constant answer of the SSE servers' health()
health_AlwaysHealthy ==
    [status |-> "healthy", model_ready |-> model_ready, model_error |-> JsonOf(model_error),
     tools |-> <<>>, keys |-> {"status", "service", "model_ready", "model_error"}]

\* health(): status, model_ready and model_error of the JSON body
health ==
    [status |-> IF model_ready THEN "healthy" ELSE "degraded",
     model_ready |-> model_ready, model_error |-> JsonOf(model_error), tools |-> <<>>,
     keys |-> {"status", "service", "model_ready", "model_error"}]

\* info(): the tools and the model members of the JSON body
info ==
    [status |-> "", model_ready |-> model_ready, model_error |-> JsonOf(model_error),
     tools |-> ToolNames, keys |-> {"service", "version", "endpoints", "tools", "model"}]

\* root() of the SSE servers: overpass_server and mcp_bullshit list the names
\* of list_tools(); japanese_translator_http_server's body has no "tools"
root(sv) ==
    IF sv = Translator
    THEN [NoPage EXCEPT !.keys = {"service", "version", "endpoints"}]
    ELSE [NoPage EXCEPT !.tools = [i \in 1..Len(list_tools(sv)) |-> list_tools(sv)[i].name],
                        !.keys = {"service", "version", "endpoints", "tools"}]

\* health() of the SSE servers: a constant body
sse_health == [NoPage EXCEPT !.status = "healthy", !.keys = {"status", "service"}]

SidePaths == {"/health", "/info"}

\* the GET routes of each app besides /openapi.json
GetRoutes(sv) == IF sv = Joint THEN SidePaths ELSE {"/health", "/"}

\* a client GETs /health or /info
Request(r, path) ==
    /\ Accepting
    /\ path \in GetRoutes(server)
    /\ t[r].pc = "idle"
    /\ t' = [t EXCEPT ![r] = [@ EXCEPT !.pc = "posted", !.via = path]]
    /\ UNCHANGED Globals

Served(rec) ==
    [rec EXCEPT !.pc = "done",
                !.page = CASE rec.via = "/health" /\ server = Joint -> health
                           [] rec.via = "/health" /\ server # Joint -> sse_health
                           [] rec.via = "/info" -> info
                           [] rec.via = "/" -> root(server)]

Serve(r) ==
    /\ t[r].pc = "posted"
    /\ t[r].via \in GetRoutes(server)
    /\ t' = [t EXCEPT ![r] = Served(@)]
    /\ UNCHANGED Globals

\* the response has been sent and the connection is free for the next request
Recycle(r) ==
    /\ t[r].pc = "done"
    /\ t[r].upstream # "abandoned"
    /\ t' = [t EXCEPT ![r] = Idle]
    /\ UNCHANGED Globals

\* the SSE servers: the transport hands a call to call_tool(name, arguments)
Invoke(r, name, arguments) ==
    /\ Accepting
    /\ t[r].pc = "idle"
    /\ t' = [t EXCEPT ![r] = [@ EXCEPT !.pc = "call", !.method = "tools/call", !.via = "sse",
                                       !.name = name, !.arguments = arguments]]
    /\ UNCHANGED Globals

----------------------------------------------------------------------------
(* call_tool.                                                               *)

\* call_tool returns `out` after `el` seconds; the JSON-RPC endpoint answers
Finish(rec, out, el) ==
    [rec EXCEPT !.pc = "done", !.out = out, !.elapsed = el, !.nres = @ + 1,
                !.resp = IF rec.via = "rpc" THEN CallResp(rec.rid, out) ELSE @]

AttributeErrorGet == "'list' object has no attribute 'get'"

\* call_tool from its entry to the handler's first suspension.  A handler that
\* returns or raises without yielding is never interrupted by wait_for: the
\* timeout callback cannot run while the handler holds the event loop.
Called(rec, p, g, genok) ==
    IF rec.name \notin Handled(server)
    THEN Finish(rec, UnknownOut(server, rec.name), 0)
    ELSE LET h == Handler(server, rec.name, rec.arguments, g, genok)
             inv == [rec EXCEPT !.invoked = TRUE]
         IN  CASE h.kind = "return" -> Finish(inv, TextOut(h.text), h.dur)
               [] h.kind = "raise"  -> Finish(inv, RaiseOut(server, rec.name, h.text[1]), h.dur)
               [] h.kind = "await"  ->
                    IF server = TripAdvisor
                    THEN [inv EXCEPT !.pc = "ta_get", !.q = h.q, !.upstream = "inflight"]
                    ELSE [inv EXCEPT !.pc = "post", !.q = h.q, !.upstream = "inflight",
                                     !.ex = ExStart(p)]

\* a handler that runs d seconds without yielding holds the event loop: the
\* requests that are ready to be handled wait for it
Held(tt, r, d) ==
    [x \in AllSlots |->
        IF x # r /\ tt[x].pc \in {"posted", "call"}
        THEN [tt[x] EXCEPT !.waited = Min(@ + d, MaxWait)] ELSE tt[x]]

CallTool(r, p, g, genok) ==
    /\ t[r].pc = "call"
    /\ LET rec == Called(t[r], p, g, genok)
           tt == Held([t EXCEPT ![r] = rec], r, IF rec.pc = "done" THEN rec.elapsed ELSE 0)
       IN  /\ t' = tt
           /\ pool' = IF rec.pc = "post" THEN ListAfterShuffle(p) ELSE pool
    /\ UNCHANGED <<Process, sse, calc, chat>>

\* the awaited client.post answered with o after d seconds
Replied(rec, o, d) ==
    LET el == rec.elapsed + d
    IN  CASE o.kind \in AbsorbedKinds ->
                LET ex1 == ExFail(rec.ex, o.kind)
                    \* seen: the failure the upstream has just delivered
                    ex2 == [ex1 EXCEPT !.seen = [ep |-> rec.ex.endpoints[rec.ex.idx],
                                                 kind |-> o.kind]]
                IN  [rec EXCEPT !.elapsed = el, !.ex = ex2,
                                !.pc = IF ex2.idx = 0 THEN "sleep" ELSE "post",
                                !.upstream = IF ex2.idx = 0 THEN "none" ELSE "inflight"]
          [] o.kind = "ok" ->
                Finish([rec EXCEPT !.ex.src = rec.ex.endpoints[rec.ex.idx],
                                   !.ex.log = Append(@, "ok"), !.ex.els = o.n,
                                   !.upstream = "answered"],
                       TextOut(OsmText(rec.name, rec.q, o.n)), el)
          [] o.kind = "badjson" ->
                Finish([rec EXCEPT !.ex.log = Append(@, "badjson"), !.upstream = "answered"],
                       TextOut(OsmCaught(server, rec.name, "badjson", JsonDecodeError)), el)
          [] o.kind = "nondict" ->
                Finish([rec EXCEPT !.ex.log = Append(@, "nondict"), !.upstream = "answered"],
                       RaiseOut(server, rec.name, AttributeErrorGet), el)
          \* a failure the except clause does not name leaves overpass_query
          [] OTHER ->
                Finish([rec EXCEPT !.ex.log = Append(@, "raised"), !.upstream = "answered"],
                       TextOut(OsmCaught(server, rec.name, o.kind, o.kind)), el)

PostReply(r, o, d) ==
    /\ t[r].pc = "post"
    /\ t[r].elapsed + d <= Budget(server, t[r].name)
    /\ t' = [t EXCEPT ![r] = Replied(@, o, d)]
    /\ UNCHANGED Globals

\* asyncio.sleep is over: the next round, or the RuntimeError the handler renders
Woken(rec) ==
    LET ex2 == ExWake(rec.ex)
        el == rec.elapsed + rec.ex.sleepfor
    IN  IF ExAgain(rec.ex)
        THEN [rec EXCEPT !.elapsed = el, !.ex = ex2, !.pc = "post", !.upstream = "inflight"]
        ELSE Finish([rec EXCEPT !.ex = ex2],
                    TextOut(OsmCaught(server, rec.name, "RuntimeError", ExhaustedMsg(ex2))), el)

SleepDone(r) ==
    /\ t[r].pc = "sleep"
    /\ t[r].elapsed + t[r].ex.sleepfor <= Budget(server, t[r].name)
    /\ t' = [t EXCEPT ![r] = Woken(@)]
    /\ UNCHANGED Globals

\* wait_for's timeout fires while the handler is suspended: the handler task is
\* cancelled at its await, the request it was waiting for is abandoned
TimedOut(rec) ==
    Finish([rec EXCEPT !.upstream = IF rec.pc = "post" THEN "abandoned" ELSE "none",
                       !.fired = TRUE],
           TextOut(TimeoutMsg(server, rec.name)), Budget(server, rec.name))

\* d: how long the pending await would still have taken
Timeout(r, d) ==
    /\ t[r].pc \in {"post", "sleep"}
    /\ t[r].pc = "sleep" => d = t[r].ex.sleepfor
    /\ t[r].elapsed + d >= Budget(server, t[r].name)
    /\ t' = [t EXCEPT ![r] = TimedOut(@)]
    /\ UNCHANGED Globals

\* variant: the handler is not cancelled and delivers the late answer
Discarded_Delivers(rec) ==
    [rec EXCEPT !.upstream = "discarded", !.out = TextOut(<<"OSM restaurants near ">>),
                !.nres = @ + 1]

\* the upstream answers a request whose waiter was cancelled: nobody reads it
Discarded(rec) == [rec EXCEPT !.upstream = "discarded"]

UpstreamLate(r) ==
    /\ t[r].pc = "done"
    /\ t[r].upstream = "abandoned"
    /\ t' = [t EXCEPT ![r] = Discarded(@)]
    /\ UNCHANGED Globals

----------------------------------------------------------------------------
(* mcp_bullshit: the handlers after tripadvisor_get answered.               *)

TaReplies ==
    [kind : {"status", "error", "nondict"}, n : {0}, ids : {FALSE}]
        \cup [kind : {"ok"}, n : 0..MaxElems, ids : BOOLEAN]

RECURSIVE TaLines(_, _)
\* the numbered items; an item whose detail request failed has no detail lines
TaLines(enriched, i) ==
    IF i > Len(enriched) THEN <<>>
    ELSE <<NatStr(i) \o ". ", IF enriched[i] THEN "Phone/Website" ELSE "">>
             \o TaLines(enriched, i + 1)

TaListing(q, enriched) ==
    <<"Found restaurants near ", q.lat, ",", q.lon, ":">> \o TaLines(enriched, 1)

TaErrorText(name, o) ==
    CASE name = "search_tripadvisor_restaurants" /\ o.kind = "status" ->
            <<"HTTP error ", "status", ". Ensure your TripAdvisor API key is valid.">>
      [] name = "search_tripadvisor_restaurants" /\ o.kind = "error" ->
            <<"Error searching restaurants: ", "detail">>
      [] name = "get_restaurant_details" /\ o.kind = "status" ->
            <<"HTTP error ", "status", ": ", "body[:300]">>
      [] name = "get_restaurant_details" /\ o.kind = "error" ->
            <<"Error getting restaurant details: ", "detail">>
      [] name = "get_restaurant_reviews" /\ o.kind = "status" ->
            <<"HTTP error ", "status", ": ", "body[:300]">>
      [] name = "get_restaurant_reviews" /\ o.kind = "error" ->
            <<"Error getting reviews: ", "detail">>

TaOkText(name, q, n) ==
    CASE name = "search_tripadvisor_restaurants" ->
            <<"No restaurants found near ", q.lat, ", ", q.lon>>
      [] name = "get_restaurant_details" ->
            <<"Details for ", "name", ": Location ID: ", q.location_id>>
      [] name = "get_restaurant_reviews" ->
            IF n = 0 THEN <<"No reviews found for location ", q.location_id>>
            ELSE <<"Reviews for Location ID ", q.location_id, ":", NatStr(n)>>

FalseSeq(n) == [i \in 1..n |-> FALSE]

\* the first tripadvisor_get of a handler answered with o
TaReplied(rec, o) ==
    LET ans == [rec EXCEPT !.upstream = "answered"]
    IN  CASE o.kind \in {"status", "error"} ->
                Finish(ans, TextOut(TaErrorText(rec.name, o)), 0)
          [] o.kind = "nondict" ->
                Finish(ans, RaiseOut(server, rec.name, AttributeErrorGet), 0)
          [] o.kind = "ok" /\ rec.name = "search_tripadvisor_restaurants" /\ o.n > 0 ->
                IF o.ids
                THEN [rec EXCEPT !.pc = "ta_detail",
                                 !.ta = [n |-> o.n, i |-> 1, ids |-> TRUE, enriched |-> <<>>]]
                ELSE Finish(ans, TextOut(TaListing(rec.q, FalseSeq(o.n))), 0)
          [] OTHER ->
                Finish(ans, TextOut(TaOkText(rec.name, rec.q, o.n)), 0)

TaReply(r, o) ==
    /\ t[r].pc = "ta_get"
    /\ t' = [t EXCEPT ![r] = TaReplied(@, o)]
    /\ UNCHANGED Globals

\* variant: the failure of a detail request ends the call with the error text
TaDetailed_FailureEnds(rec, okd) ==
    LET e == Append(rec.ta.enriched, okd)
    IN  IF ~okd
        THEN Finish([rec EXCEPT !.ta.enriched = e, !.upstream = "answered"],
                    TextOut(<<"Error searching restaurants: ", "detail">>), 0)
        ELSE IF rec.ta.i < rec.ta.n
        THEN [rec EXCEPT !.ta.i = @ + 1, !.ta.enriched = e]
        ELSE Finish([rec EXCEPT !.ta.enriched = e, !.upstream = "answered"],
                    TextOut(TaListing(rec.q, e)), 0)

\* the detail request of item i answered (okd) or failed: both go on
TaDetailed(rec, okd) ==
    LET e == Append(rec.ta.enriched, okd)
    IN  IF rec.ta.i < rec.ta.n
        THEN [rec EXCEPT !.ta.i = @ + 1, !.ta.enriched = e]
        ELSE Finish([rec EXCEPT !.ta.enriched = e, !.upstream = "answered"],
                    TextOut(TaListing(rec.q, e)), 0)

TaDetailReply(r, okd) ==
    /\ t[r].pc = "ta_detail"
    /\ t' = [t EXCEPT ![r] = TaDetailed(@, okd)]
    /\ UNCHANGED Globals

----------------------------------------------------------------------------
(* Specifications.                                                          *)

GenTimes == {1, MaxGen}
IdentityShuffle == {[i \in 1..NEndpoints |-> i]}

\* whole-second latencies, or only "at once" and "at the read timeout"
Lat(o, fine) ==
    IF fine THEN Latencies(o)
    ELSE IF o.kind = "timeout" THEN {ReadTimeout} ELSE {0}

\* how long the await a call is suspended on may still take
Pending(r, R, fine) ==
    IF t[r].pc = "sleep" THEN {t[r].ex.sleepfor} ELSE UNION {Lat(o, fine) : o \in R}

\* the steps of a call once call_tool has been entered; P: the orders the
\* shuffle is drawn from, R: the answers the upstream gives
ToolSteps(r, P, R, fine) ==
    \/ \E p \in P, g \in GenTimes, genok \in BOOLEAN : CallTool(r, p, g, genok)
    \/ \E o \in R : \E d \in Lat(o, fine) : PostReply(r, o, d)
    \/ SleepDone(r)
    \/ \E d \in Pending(r, R, fine) : Timeout(r, d)
    \/ UpstreamLate(r)

\* Spec: the joint_server process serving one JSON-RPC request
Next ==
    \/ \E o \in LoadOutcomes : LoadModel(o)
    \/ \E b \in Bodies : Post(1, b)
    \/ HandleHttp(1)
    \/ ToolSteps(1, Shuffles, Replies, FALSE)

InitJoint == Init /\ server = Joint

Spec == InitJoint /\ [][Next]_vars

\* SpecTools: each server's call_tool, called as the MCP transport calls it
NextTools ==
    \/ \E o \in LoadOutcomes : LoadModel(o)
    \/ Import
    \/ \E n \in AllNames : \E a \in ArgCases(n) : Invoke(1, n, a)
    \/ ToolSteps(1, Shuffles, Replies, FALSE)
    \/ \E o \in TaReplies : TaReply(1, o)
    \/ \E okd \in BOOLEAN : TaDetailReply(1, okd)

SpecTools == Init /\ [][NextTools]_vars

\* SpecExec: overpass_server running one OSM tool call with valid arguments,
\* every shuffle order, every whole-second latency
OsmCalls ==
    {<<n, Dict([k \in Properties(n) |-> Valid(k)])>> :
        n \in {"search_osm_restaurants", "get_osm_place_details"}}

NextExec ==
    \/ Import
    \/ \E c \in OsmCalls : Invoke(1, c[1], c[2])
    \/ ToolSteps(1, Shuffles, Replies, TRUE)

InitOverpass == Init /\ server = Overpass

SpecExec == InitOverpass /\ [][NextExec]_vars

\* SpecConc: the joint_server process serving two JSON-RPC requests at once
ConcBodies ==
    {NotJson}
      \cup {Envelope("2.0", id, m, NoParams) :
                id \in {Null, "1", "2", TrueVal},
                m \in {"initialize", "tools/list", "resources/list"}}
      \cup {Envelope("2.0", id, "tools/call", Params(n, Dict([k \in Properties(n) |-> Valid(k)]))) :
                id \in {"1", "2"}, n \in {"ping", "search_osm_restaurants", "foo"}}

ConcReplies == {o \in Replies : o.kind \in {"ok", "status", "timeout"} /\ o.n = 0}

NextConc ==
    \/ \E o \in LoadOutcomes : LoadModel(o)
    \/ \E r \in AllSlots : \E b \in ConcBodies : Post(r, b)
    \/ \E r \in AllSlots : HandleHttp(r)
    \/ \E r \in AllSlots : ToolSteps(r, IdentityShuffle, ConcReplies, FALSE)

SpecConc == InitJoint /\ [][NextConc]_vars

\* SpecOps: the joint_server process serving JSON-RPC requests, /health and
\* /info on two connections, one request after another on each
OpsBodies ==
    {Envelope("2.0", "1", m, NoParams) : m \in {"initialize", "tools/list"}}
      \cup {Envelope("2.0", "1", "tools/call", Params(n, Dict([k \in Properties(n) |-> Valid(k)]))) :
                n \in {"ping", "search_osm_restaurants", "translate_ja_to_en"}}

OpsReplies == {o \in Replies : o.kind \in {"ok", "status", "timeout"} /\ o.n = 0}

NextOps ==
    \/ \E o \in LoadOutcomes : LoadModel(o)
    \/ \E r \in AllSlots : \E b \in OpsBodies : Post(r, b)
    \/ \E r \in AllSlots : HandleHttp(r)
    \/ \E r \in AllSlots : \E path \in SidePaths : Request(r, path)
    \/ \E r \in AllSlots : Serve(r)
    \/ \E r \in AllSlots : Recycle(r)
    \/ \E r \in AllSlots : ToolSteps(r, IdentityShuffle, OpsReplies, FALSE)

SpecOps == InitJoint /\ [][NextOps]_vars

\* SpecPages: every server answering GET /health, /info and / on two
\* connections
NextPages ==
    \/ \E o \in LoadOutcomes : LoadModel(o)
    \/ Import
    \/ \E r \in AllSlots : \E path \in SidePaths \cup {"/"} : Request(r, path)
    \/ \E r \in AllSlots : Serve(r)
    \/ \E r \in AllSlots : Recycle(r)

SpecPages == Init /\ [][NextPages]_vars

\* SpecPool: overpass_server running OSM tool calls on two connections, one
\* after another on each, every shuffle order possible
PoolReplies == {o \in Replies : o.kind \in {"ok", "status", "timeout"} /\ o.n = 0}

NextPool ==
    \/ Import
    \/ \E r \in AllSlots : Invoke(r, "search_osm_restaurants",
                                  Dict([k \in Properties("search_osm_restaurants") |-> Valid(k)]))
    \/ \E r \in AllSlots : ToolSteps(r, Shuffles, PoolReplies, FALSE)
    \/ \E r \in AllSlots : Recycle(r)

SpecPool == InitOverpass /\ [][NextPool]_vars

----------------------------------------------------------------------------
(* The SSE endpoints of overpass_server, mcp_bullshit and                   *)
(* japanese_translator_http_server.  A transport object keeps the table of  *)
(* the sessions opened through it; sse.transports[n] is the table of the    *)
(* n-th SseServerTransport made.                                            *)

SseServers == {Overpass, TripAdvisor, Translator}

\* SseServerTransport("/message"): a transport that knows no session yet
NewTransport == {}

NoSession == 0           \* a POST without session_id
SessionIds == 0..MaxStreams
SseMessages == {"tools/list", "tools/call"}

\* the open stream of a session, 0 if there is none
StreamOf(sid) ==
    IF \E i \in 1..Len(sse.streams) : sse.streams[i].open /\ sse.streams[i].session = sid
    THEN CHOOSE i \in 1..Len(sse.streams) : sse.streams[i].open /\ sse.streams[i].session = sid
    ELSE 0

\* GET /sse: a transport is made for this request and asked to serve the
\* stream.  has: whether the mcp package installed offers the method called;
\* without it the request ends in AttributeError (HTTP 500) and no stream.
handle_sse(has) ==
    /\ Accepting
    /\ server \in SseServers
    /\ Len(sse.streams) < MaxStreams
    /\ LET n == Len(sse.transports) + 1
           session == Len(sse.streams) + 1
       IN  sse' = [sse EXCEPT
                     !.transports = Append(@, IF has THEN NewTransport \cup {session}
                                              ELSE NewTransport),
                     !.streams = Append(@, [session |-> session, transport |-> n,
                                            open |-> has, received |-> <<>>])]
    /\ UNCHANGED <<Process, pool, t, calc, chat>>

\* the client closes its stream: the session leaves its transport's table
Disconnect(i) ==
    /\ i \in 1..Len(sse.streams)
    /\ sse.streams[i].open
    /\ sse' = [sse EXCEPT
                 !.streams[i].open = FALSE,
                 !.transports[sse.streams[i].transport] = @ \ {sse.streams[i].session}]
    /\ UNCHANGED <<Process, pool, t, calc, chat>>

\* POST /message?session_id=sid: another transport is made for this request
\* and looks the session up in its own table: 400 without session_id, 404
\* for a session it does not know, else 202 and the message goes to the
\* session's stream
handle_messages(sid, msg) ==
    /\ Accepting
    /\ server \in SseServers
    /\ Len(sse.posts) < MaxPosts
    /\ LET transport == NewTransport
           known == sid \in transport
           writer == IF known THEN StreamOf(sid) ELSE 0
       IN  sse' = [sse EXCEPT
                     !.transports = Append(@, transport),
                     !.posts = Append(@, [session |-> sid, msg |-> msg,
                                          stream |-> StreamOf(sid),
                                          status |-> IF sid = NoSession THEN 400
                                                     ELSE IF ~known THEN 404 ELSE 202,
                                          delivered |-> writer]),
                     !.streams = [i \in DOMAIN @ |->
                                    IF i = writer THEN [@[i] EXCEPT !.received = Append(@, msg)]
                                    ELSE @[i]]]
    /\ UNCHANGED <<Process, pool, t, calc, chat>>

NextSse ==
    \/ Import
    \/ \E has \in BOOLEAN : handle_sse(has)
    \/ \E i \in 1..MaxStreams : Disconnect(i)
    \/ \E sid \in SessionIds : \E msg \in SseMessages : handle_messages(sid, msg)

InitSse == Init /\ server \in SseServers

SpecSse == InitSse /\ [][NextSse]_vars

\* the programs of module_3_mcp: none of the four servers runs
LocalServer == "module_3_mcp/mcp_server"

InitLocal ==
    /\ server = LocalServer
    /\ phase = "startup"
    /\ tokenizer = "None"
    /\ model = "None"
    /\ model_ready = FALSE
    /\ model_error = NoneVal
    /\ api_key = NoneVal
    /\ loads = 0
    /\ pool = OVERPASS_ENDPOINTS
    /\ sse = Sse0
    /\ t = [r \in AllSlots |-> Idle]

\* SpecCalc: calculator called with every pair of numbers and every operator
InitCalc == InitLocal /\ calc \in CalcCalls /\ chat = NotStarted

NextCalc == Calculate

SpecCalc == InitCalc /\ [][NextCalc]_vars

\* SpecChat: the Ollama client from its first input() on, the model free to
\* request any tool calls in either of its answers
InitChat == InitLocal /\ calc = NotCalled /\ chat = Started

NextChat ==
    \/ UserTurn
    \/ UserExit
    \/ \E tool_calls \in ToolCallLists : FirstChat(tool_calls)
    \/ ToolReturned
    \/ \E tool_calls \in ToolCallLists : FinalChat(tool_calls)
    \/ ChatRaised

SpecChat == InitChat /\ [][NextChat]_vars

----------------------------------------------------------------------------
(* Properties.                                                              *)

Done(r)      == t[r].pc = "done"
IsCall(r)    == t[r].method = "tools/call"

\* C1: in joint_server, overpass_server and mcp_bullshit every finished
\* call_tool, whatever the name, the arguments and the upstream answers,
\* handed back a text result; none let an exception out or returned nothing.
C1_NeverFailsOutward ==
    \A r \in AllSlots :
        (Done(r) /\ server \in {Joint, Overpass, TripAdvisor})
            => (t[r].out.kind = "text" /\ t[r].out.text # <<>> /\ t[r].nres = 1)

\* C1 witness: a handler raised on its arguments and call_tool rendered it
C1_Witness ==
    \E r \in AllSlots :
        /\ Done(r)
        /\ server = TripAdvisor
        /\ t[r].name = "get_restaurant_details"
        /\ t[r].arguments.kind = "list"
        /\ t[r].out.kind = "text"
        /\ t[r].out.text[1] = "Unhandled error in tool '"

\* C2 (as claimed): in every server a call of a name outside the server's
\* catalogue yields the text "Unknown tool: X".
C2_UnknownToolEverywhere ==
    \A r \in AllSlots :
        (Done(r) /\ t[r].name \notin Catalogue(server))
            => t[r].out = TextOut(<<"Unknown tool: ", PyStr(t[r].name)>>)

\* C3 (as claimed): a joint_server handler that overruns its budget yields the
\* tool's timeout message and call_tool returns no later than the budget.
C3_TimeoutBoundsEveryTool ==
    \A r \in AllSlots :
        (Done(r) /\ server = Joint /\ t[r].invoked)
            => /\ t[r].elapsed <= Budget(Joint, t[r].name)
               /\ t[r].fired => t[r].out = TextOut(TimeoutMsg(Joint, t[r].name))

\* the answers overpass_query received are k failures, k < N, and then a success
FirstRoundSuccess(ex) ==
    /\ ex.log # <<>>
    /\ Len(ex.log) <= NEndpoints
    /\ ex.log[Len(ex.log)] = "ok"
    /\ \A i \in 1..(Len(ex.log) - 1) : ex.log[i] = "fail"

\* C4: when the first k < N endpoints of the shuffled order fail and the
\* (k+1)-th succeeds, exactly k+1 requests were issued, all in round 1, no
\* sleep happened, and the call renders the (k+1)-th endpoint's response.
C4_FirstRoundFailover ==
    \A r \in AllSlots :
        (Done(r) /\ FirstRoundSuccess(t[r].ex))
            => LET ex == t[r].ex
                   k == Len(ex.log) - 1
               IN  /\ ex.nreq = k + 1
                   /\ \A i \in 1..Len(ex.rounds) : ex.rounds[i] = 1
                   /\ Len(ex.rounds) = k + 1
                   /\ ex.slept = 0
                   /\ ex.attempts = 0
                   /\ ex.src = ex.endpoints[k + 1]
                   /\ t[r].out.text[1] \in {"No OSM restaurants found near ",
                                            "OSM restaurants near ",
                                            "No element found for ", "Details for "}

\* C4 witness: two endpoints failed, the third answered
C4_Witness ==
    \E r \in AllSlots :
        /\ Done(r)
        /\ t[r].ex.log = <<"fail", "fail", "ok">>
        /\ t[r].ex.src = t[r].ex.endpoints[3]

\* every answer overpass_query received was a failure and it raised
Exhausted(r) ==
    /\ Done(r)
    /\ t[r].out.kind = "text"
    /\ Len(t[r].out.text) = 2
    /\ t[r].out.text[1] = "Error querying Overpass: "
    /\ t[r].ex.log # <<>>
    /\ \A i \in 1..Len(t[r].ex.log) : t[r].ex.log[i] = "fail"

RECURSIVE SumMinPow2(_, _)
\* the sum of min(2^i, cap) for i = 1..n
SumMinPow2(n, cap) ==
    IF n = 0 THEN 0 ELSE SumMinPow2(n - 1, cap) + (IF Pow2(n) <= cap THEN Pow2(n) ELSE cap)

\* C5 (as claimed): exhaustion after exactly R = 4 rounds, R*N attempts, and
\* a cumulative sleep of the sum of min(2^r, 6) for r = 1..R-1 = 12 s.
C5_SleepTwelve ==
    \A r \in AllSlots :
        Exhausted(r)
            => /\ t[r].ex.attempts = 4
               /\ t[r].ex.nreq = 4 * NEndpoints
               /\ t[r].ex.slept = SumMinPow2(4 - 1, 6)
               /\ t[r].ex.slept = 12

\* C5 (amended): exhaustion after exactly R = 4 rounds, R*N attempts, and a
\* cumulative sleep of the sum of min(2^r, 6) for r = 1..R = 18 s: the
\* executor also sleeps after the last round, before it raises.
C5_SleepEighteen ==
    \A r \in AllSlots :
        Exhausted(r)
            => /\ t[r].ex.attempts = 4
               /\ t[r].ex.nreq = 4 * NEndpoints
               /\ Len(t[r].ex.log) = 4 * NEndpoints
               /\ t[r].ex.slept = SumMinPow2(4, 6)
               /\ t[r].ex.slept = 18
               /\ t[r].elapsed >= 18

C5_Witness ==
    \E r \in AllSlots : Exhausted(r) /\ t[r].ex.slept = 18 /\ t[r].ex.nreq = 12

\* C6: a finished tools/call produced exactly one result; the result of a
\* call whose timeout fired is the timeout message; and nothing that happens
\* after a call has finished (the abandoned upstream request answering)
\* replaces its result or its response or adds a second result.
C6_ExactlyOneResult ==
    /\ [](\A r \in AllSlots :
            (Done(r) /\ IsCall(r))
                => /\ t[r].nres = 1
                   /\ t[r].resp.result.kind = "content"
                   /\ t[r].resp.result.content = <<[type |-> "text", text |-> t[r].out.text]>>
                   /\ t[r].fired => t[r].out = TextOut(TimeoutMsg(server, t[r].name)))
    /\ [][\A r \in AllSlots :
            Done(r) => /\ t'[r].pc = "done"
                       /\ t'[r].out = t[r].out
                       /\ t'[r].resp = t[r].resp
                       /\ t'[r].nres = t[r].nres]_vars

\* C6 witness: the timeout fired and the abandoned request answered afterwards
C6_Witness ==
    \E r \in AllSlots :
        /\ Done(r)
        /\ t[r].fired
        /\ t[r].upstream = "discarded"
        /\ t[r].resp.result.content[1].text = TimeoutMsg(Joint, t[r].name)

\* envelopes that are unparsable, not an object, without a method, or with
\* a member that is an array where a string, a number or an object belongs
Unreadable(b) ==
    \/ ~b.json
    \/ ~b.obj
    \/ b.method = Absent
    \/ b.method \in {Null, ListVal}
    \/ b.jsonrpc = ListVal
    \/ b.id = ListVal
    \/ b.params.kind = "list"

\* the malformed envelopes: the above, and an id that is a
\* boolean, which is neither a string nor a number nor null
Malformed(b) == Unreadable(b) \/ b.id = TrueVal

\* C7: every answered POST has status 200 and a body with exactly one of
\* result and error; a parsed envelope whose method is none of initialize,
\* tools/list, tools/call is answered with error code -32601.
C7_AlwaysJsonRpc200 ==
    \A r \in AllSlots :
        (Done(r) /\ t[r].via = "rpc")
            => /\ t[r].resp.status = 200
               /\ ("result" \in t[r].resp.keys) # ("error" \in t[r].resp.keys)
               /\ (~Unreadable(t[r].body)
                     /\ t[r].body.method \notin {"initialize", "tools/list", "tools/call"})
                    => ("error" \in t[r].resp.keys /\ t[r].resp.code = 0 - 32601)

C7_Witness ==
    \E r \in AllSlots :
        /\ Done(r)
        /\ t[r].body.method = "resources/list"
        /\ t[r].resp.status = 200
        /\ t[r].resp.code = 0 - 32601

\* C8: a malformed envelope is answered with the parse-error envelope (code
\* -32700, null id) and status 200, and no tool handler was invoked for it.
C8_MalformedIsParseError ==
    \A r \in AllSlots :
        (t[r].via = "rpc" /\ Malformed(t[r].body))
            => /\ ~t[r].invoked
               /\ t[r].pc \in {"posted", "done"}
               /\ Done(r) => /\ t[r].resp.status = 200
                             /\ t[r].resp.keys = {"jsonrpc", "id", "error"}
                             /\ t[r].resp.code = 0 - 32700
                             /\ t[r].resp.id = Null

\* C9: a finished tools/call is answered with a result, never an error
\* envelope, and the result's content is one item of type "text".
C9_CallNeverErrorEnvelope ==
    \A r \in AllSlots :
        (Done(r) /\ t[r].via = "rpc" /\ ~Unreadable(t[r].body)
                 /\ t[r].body.method = "tools/call")
            => /\ t[r].resp.status = 200
               /\ "result" \in t[r].resp.keys
               /\ "error" \notin t[r].resp.keys
               /\ Len(t[r].resp.result.content) = 1
               /\ t[r].resp.result.content[1].type = "text"
               /\ t[r].resp.result.content[1].text # <<>>

\* C9 witness: the model is not ready and translate_ja_to_en was called
C9_Witness ==
    \E r \in AllSlots :
        /\ Done(r)
        /\ t[r].body.method = "tools/call"
        /\ ~model_ready
        /\ "result" \in t[r].resp.keys
        /\ t[r].resp.result.content[1].text[1] = "[translation-error] mBART not ready: "

\* the id member of a posted envelope as JSON: absent reads as null
RequestId(b) == IF b.id = Absent THEN Null ELSE b.id

\* C10 (as claimed): the response to a parsed envelope carries the request's
\* id, and only the parse-error envelope carries a null id.
C10_OnlyParseErrorNullId ==
    \A r \in AllSlots :
        (Done(r) /\ t[r].via = "rpc")
            => /\ ~Unreadable(t[r].body) => t[r].resp.id = RequestId(t[r].body)
               /\ t[r].resp.id = Null => t[r].resp.code = 0 - 32700

\* C10 (amended): the response to a parsed envelope whose id is a string or
\* an integer carries that id, also with another request in flight; it
\* carries null when the request's id was null or absent, and 1 when it was
\* true; the parse-error envelope carries null.
C10_IdEchoed ==
    \A r \in AllSlots :
        (Done(r) /\ t[r].via = "rpc")
            => LET b == t[r].body
               IN  /\ (~Unreadable(b) /\ (IsInt(b.id) \/ IsStr(b.id))) => t[r].resp.id = b.id
                   /\ (~Unreadable(b) /\ b.id \in {Absent, Null}) => t[r].resp.id = Null
                   /\ (~Unreadable(b) /\ b.id = TrueVal) => t[r].resp.id = "1"
                   /\ Unreadable(b) => (t[r].resp.id = Null /\ t[r].resp.code = 0 - 32700)

\* C10 witness: request 2 was answered with its id while request 1, with
\* another id, is still waiting on its upstream
C10_Witness ==
    /\ t[1].pc = "post"
    /\ t[1].rid = "1"
    /\ t[2].pc = "done"
    /\ t[2].body.id = "2"
    /\ t[2].resp.id = "2"
    /\ t[2].body.method = "tools/call"

ModelStates ==
    {<<TRUE, NoneVal>>, <<FALSE, "OSError: tokenizer">>, <<FALSE, "OSError: model">>}

\* C11: the model state starts as (not ready, no error), is set by the one
\* load attempt to (ready, no error) or (not ready, message), and no request
\* (initialize, tools/list, tools/call, /health, /info) changes it afterwards.
C11_ModelStateChangesOnce ==
    /\ [](server = Joint =>
            /\ phase = "startup" => (~model_ready /\ model_error = NoneVal /\ loads = 0)
            /\ phase # "startup" => (<<model_ready, model_error>> \in ModelStates /\ loads = 1))
    /\ [][phase # "startup" => (model_ready' = model_ready /\ model_error' = model_error)]_vars

\* C11 witness: the load failed, and afterwards a translation was asked for
\* and /health was served
C11_Witness ==
    /\ server = Joint
    /\ ~model_ready
    /\ model_error = "OSError: model"
    /\ Done(1) /\ t[1].name = "translate_ja_to_en"
    /\ Done(2) /\ t[2].via = "/health"

\* C12: the load runs once and is over before any request is handled: a
\* request that has reached the server finds the server past its startup,
\* one load attempt made, and a tokenizer only together with the attempt's
\* outcome (ready, or the recorded error).
C12_LoadedBeforeServing ==
    /\ loads <= 1
    /\ \A r \in AllSlots :
          (server = Joint /\ t[r].pc # "idle")
              => /\ phase = "serving"
                 /\ loads = 1
                 /\ tokenizer = "loaded" => (model_ready \/ model_error # NoneVal)

\* C12 witness: a handler runs with the tokenizer set and the model absent
C12_Witness ==
    \E r \in AllSlots :
        /\ server = Joint
        /\ t[r].pc = "call"
        /\ t[r].name = "translate_ja_to_en"
        /\ tokenizer = "loaded"
        /\ model = "None"

\* C13: a failing load never fails the startup: the failure is recorded in
\* the model error, ready stays false, and the server serves; ping answers
\* and /health reports the failure.
C13_LoadNeverRaises ==
    server = Joint =>
        /\ phase # "crashed"
        /\ (phase = "serving" /\ model = "None")
              => (~model_ready /\ model_error \in {"OSError: tokenizer", "OSError: model"})
        /\ (phase = "serving" /\ model = "loaded") => (model_ready /\ model_error = NoneVal)
        /\ \A r \in AllSlots :
              /\ (Done(r) /\ t[r].name = "ping") => t[r].out = TextOut(<<"pong: ", "hi">>)
              /\ (Done(r) /\ t[r].via = "/health" /\ model = "None")
                    => (t[r].page.status = "degraded" /\ t[r].page.model_error = model_error)

\* C13 witness: the tokenizer failed to load; ping and /health were served
C13_Witness ==
    /\ server = Joint
    /\ model_error = "OSError: tokenizer"
    /\ \E r \in AllSlots : Done(r) /\ t[r].name = "ping" /\ t[r].out.kind = "text"
    /\ \E r \in AllSlots : Done(r) /\ t[r].via = "/health" /\ t[r].page.status = "degraded"

\* C14: while the model is not ready, every translate_ja_to_en call of
\* joint_server, whatever its arguments, returns at once the not-ready text
\* with the recorded load error; no failure of reading the arguments or of
\* using the absent tokenizer or model shows.
C14_NotReadyCheckedFirst ==
    \A r \in AllSlots :
        (Done(r) /\ server = Joint /\ t[r].name = "translate_ja_to_en" /\ ~model_ready)
            => /\ model_error \in {"OSError: tokenizer", "OSError: model"}
               /\ t[r].out = TextOut(<<"[translation-error] mBART not ready: ", model_error>>)
               /\ t[r].elapsed = 0

\* C14 witness: not ready, and the call came with a non-mapping as arguments
C14_Witness ==
    \E r \in AllSlots :
        /\ Done(r)
        /\ server = Joint
        /\ t[r].name = "translate_ja_to_en"
        /\ t[r].arguments.kind = "list"
        /\ tokenizer = "loaded"
        /\ ~model_ready
        /\ t[r].out.text[1] = "[translation-error] mBART not ready: "

\* C15 (as claimed): a /health request or a ping call that was submitted
\* while another tool call was in progress was served without waiting for it.
C15_OthersNeverWait ==
    \A r \in AllSlots :
        (Done(r) /\ server = Joint /\ (t[r].via = "/health" \/ t[r].name = "ping"))
            => t[r].waited = 0

\* C16: a /health response says "healthy" exactly when the model is ready and
\* "degraded" otherwise, carries the model's ready and error values, and
\* serving it changes nothing but the request it answers.
C16_HealthReflectsModelState ==
    /\ [](\A r \in AllSlots :
            (Done(r) /\ server = Joint /\ t[r].via = "/health")
                => /\ t[r].page.status = (IF model_ready THEN "healthy" ELSE "degraded")
                   /\ t[r].page.model_ready = model_ready
                   /\ t[r].page.model_error = (IF model_error = NoneVal THEN Null ELSE model_error))
    /\ [][\A r \in AllSlots :
            (t[r].via = "/health" /\ t[r].pc = "posted" /\ t'[r].pc = "done")
                => /\ model_ready' = model_ready
                   /\ model_error' = model_error
                   /\ tokenizer' = tokenizer
                   /\ model' = model
                   /\ phase' = phase
                   /\ loads' = loads
                   /\ \A x \in AllSlots \ {r} : t'[x] = t[x]]_vars

\* C16 witness: /health answered degraded after a failed load, another call
\* being in flight
C16_Witness ==
    /\ server = Joint
    /\ Done(2)
    /\ t[2].via = "/health"
    /\ t[2].page.status = "degraded"
    /\ t[2].page.model_error = "OSError: model"
    /\ t[1].pc = "post"

\* C17: two tools/list responses, whatever was served in between, carry the
\* same catalogue: the five descriptors of list_tools(), in its order.
C17_ToolsListIdempotent ==
    \A r1, r2 \in AllSlots :
        (/\ server = Joint
         /\ Done(r1) /\ t[r1].method = "tools/list"
         /\ Done(r2) /\ t[r2].method = "tools/list")
            => /\ t[r1].resp.result = t[r2].resp.result
               /\ t[r1].resp.result.kind = "tools"
               /\ [i \in 1..Len(t[r1].resp.result.tools) |-> t[r1].resp.result.tools[i].name]
                    = <<"get_current_time", "search_osm_restaurants", "get_osm_place_details",
                        "translate_ja_to_en", "ping">>

\* C17 witness: two tools/list responses side by side
C17_Witness ==
    /\ server = Joint
    /\ Done(1) /\ t[1].method = "tools/list" /\ Len(t[1].resp.result.tools) = 5
    /\ Done(2) /\ t[2].method = "tools/list" /\ Len(t[2].resp.result.tools) = 5

\* the positions of list_tools() whose descriptor carries the name
Descriptors(sv, name) == {i \in 1..Len(list_tools(sv)) : list_tools(sv)[i].name = name}

\* the arguments hold a valid value for every property of the schema but m
LacksOnly(a, s, m) ==
    /\ a.kind = "dict"
    /\ DOMAIN a.kv = s.properties \ {m}
    /\ \A k \in DOMAIN a.kv : a.kv[k] = Valid(k)

\* what the handler needs besides its arguments: the model, the API key
ResourceReady(sv, name) ==
    /\ (sv = Joint /\ name = "translate_ja_to_en") => (model_ready /\ tokenizer # "None")
    /\ (sv = TripAdvisor /\ name # "get_current_time") => api_key # NoneVal

\* the call ended in the KeyError of reading arguments[m]
FailedOnMissing(r, m) ==
    \/ t[r].out = TextOut(UnhandledText(t[r].name, KeyError(m).text[1]))
    \/ t[r].out = RaisedOut(KeyError(m).text[1])

C19_EveryHandlerUnderTimeout ==
    \A r \in AllSlots :
        (Done(r) /\ t[r].invoked /\ t[r].name \in Handled(server))
            => /\ Budget(server, t[r].name) > 0
               /\ t[r].elapsed <= Budget(server, t[r].name)

\* C20 (as claimed): a message posted to /message for a session whose stream
\* is open on /sse is accepted and delivered on that stream.
C20_PostsReachTheirStream ==
    \A k \in 1..Len(sse.posts) :
        sse.posts[k].stream # 0
            => /\ sse.posts[k].status = 202
               /\ sse.posts[k].delivered = sse.posts[k].stream

\* C21 (as claimed): the root or info page of every server carries the
\* service metadata and a tools list that names exactly the tools the
\* server's call_tool handles, in the order of list_tools().
C21_RootListsHandledTools ==
    \A r \in AllSlots :
        (Done(r) /\ t[r].via \in {"/", "/info"})
            => /\ {"service", "version", "endpoints", "tools"} \subseteq t[r].page.keys
               /\ {t[r].page.tools[i] : i \in 1..Len(t[r].page.tools)} = Handled(server)
               /\ Len(t[r].page.tools) = Len(list_tools(server))
               /\ \A i \in 1..Len(t[r].page.tools) :
                     t[r].page.tools[i] = list_tools(server)[i].name

TripAdvisorTools ==
    {"search_tripadvisor_restaurants", "get_restaurant_details", "get_restaurant_reviews"}

\* C22: mcp_bullshit without TRIPADVISOR_API_KEY serves; each of its
\* TripAdvisor tools, whatever the arguments, returns the key-missing text
\* with no upstream request made; get_current_time answers as usual.
C22_NoKeyNoRequest ==
    \A r \in AllSlots :
        (server = TripAdvisor /\ api_key = NoneVal /\ t[r].pc \notin {"idle", "call"})
            => /\ phase = "serving"
               /\ t[r].name \in TripAdvisorTools
                    => /\ Done(r)
                       /\ t[r].upstream = "none"
                       /\ t[r].ta = Ta0
                       /\ t[r].out = TextOut(<<"TripAdvisor API key missing. Set environment variable TRIPADVISOR_API_KEY.">>)
               /\ (t[r].name = "get_current_time"
                      /\ t[r].arguments \in {Dict(EmptyDict), Dict([k \in {"timezone"} |-> "UTC"])})
                    => /\ Done(r)
                       /\ t[r].out = TextOut(<<"Current time in ", "UTC", ": ", NOW, " UTC">>)

\* C22 witness: no key, get_restaurant_reviews called with a non-mapping
C22_Witness ==
    /\ server = TripAdvisor
    /\ api_key = NoneVal
    /\ Done(1)
    /\ t[1].name = "get_restaurant_reviews"
    /\ t[1].arguments.kind = "list"
    /\ t[1].out.text[1] = "TripAdvisor API key missing. Set environment variable TRIPADVISOR_API_KEY."

\* the translation call ended in a failure of model.generate
GenFailed(r) == t[r].out = TextOut(UnhandledText(t[r].name, "generate failed"))

IsPermutation(e) ==
    /\ Len(e) = Len(OVERPASS_ENDPOINTS)
    /\ {e[i] : i \in 1..Len(e)} = {OVERPASS_ENDPOINTS[i] : i \in 1..Len(OVERPASS_ENDPOINTS)}

\* C24: whatever calls have run or are running, the module's endpoint list
\* is the configured one, in its order; every call that reached
\* overpass_query works on a permutation of the configured endpoints, and
\* keeps the one it drew at its start until the call is over.
C24_PoolUntouched ==
    /\ [](pool = OVERPASS_ENDPOINTS)
    /\ [](\A r \in AllSlots : t[r].ex # Ex0 => IsPermutation(t[r].ex.endpoints))
    /\ [][\A r \in AllSlots :
            (t[r].ex # Ex0 /\ t'[r].pc # "idle") => t'[r].ex.endpoints = t[r].ex.endpoints]_vars

\* C24 witness: two calls in flight with different orders, neither the
\* configured one
C24_Witness ==
    /\ t[1].pc = "post" /\ t[2].pc = "sleep"
    /\ t[1].ex.endpoints # t[2].ex.endpoints
    /\ t[1].ex.endpoints # OVERPASS_ENDPOINTS
    /\ t[2].ex.endpoints # OVERPASS_ENDPOINTS

\* C25: the step that answers initialize changes nothing but the request it
\* answers: not the model state, not the endpoint list, not another request,
\* and it starts no handler and no upstream request; tools/list and a ping
\* call get the same response in every state, whatever initialize requests
\* were served before.
C25_InitializeNoSideEffect ==
    /\ [][\A r \in AllSlots :
            (t[r].pc = "posted" /\ t[r].via = "rpc" /\ t'[r].pc = "done"
                /\ t'[r].method = "initialize")
                => /\ model_ready' = model_ready /\ model_error' = model_error
                   /\ tokenizer' = tokenizer /\ model' = model
                   /\ phase' = phase /\ loads' = loads /\ pool' = pool
                   /\ t'[r].upstream = "none" /\ t'[r].ex = Ex0 /\ ~t'[r].invoked
                   /\ t'[r].resp.result.kind = "init"
                   /\ \A x \in AllSlots \ {r} : t'[x] = t[x]]_vars
    /\ [](\A r \in AllSlots :
            /\ (Done(r) /\ t[r].method = "tools/list")
                  => Len(t[r].resp.result.tools) = 5
            /\ (Done(r) /\ IsCall(r) /\ t[r].name = "ping")
                  => t[r].resp.result.content = <<[type |-> "text", text |-> <<"pong: ", "hi">>]>>)

\* C25 witness: initialize answered on one connection next to a tools/list
\* response, the model loaded
C25_Witness ==
    /\ model_ready
    /\ Done(1) /\ t[1].method = "initialize" /\ t[1].resp.result.kind = "init"
    /\ Done(2) /\ t[2].method = "tools/list"

\* the call got a 2xx answer whose element list is empty
ZeroElements(r) ==
    /\ Done(r)
    /\ t[r].name = "search_osm_restaurants"
    /\ t[r].upstream = "answered"
    /\ t[r].ex.log # <<>>
    /\ t[r].ex.log[Len(t[r].ex.log)] = "ok"
    /\ t[r].ex.els = 0

\* C26: a search_osm_restaurants call answered with no elements returns the
\* no-results text with the latitude and longitude of the request as floats
\* and its radius (the default when it gave none) as an integer; for 46.9,
\* 7.4, 500, limit 1 that is "No OSM restaurants found near 46.9, 7.4 within
\* 500 m.".
C26_NoResultsText ==
    \A r \in AllSlots :
        ZeroElements(r)
            => LET a == t[r].arguments
               IN  /\ t[r].out =
                        TextOut(<<"No OSM restaurants found near ", PyFloat(a.kv["latitude"]),
                                  ", ", PyFloat(a.kv["longitude"]), " within ",
                                  IF Has(a, "radius_m") THEN PyInt(a.kv["radius_m"]) ELSE "1500",
                                  " m.">>)
                   /\ a = Dict([k \in {"latitude", "longitude", "radius_m", "limit"} |->
                                    CASE k = "latitude" -> "46.9" [] k = "longitude" -> "7.4"
                                      [] k = "radius_m" -> "500" [] k = "limit" -> "1"])
                        => t[r].out.text = <<"No OSM restaurants found near ", "46.9", ", ",
                                             "7.4", " within ", "500", " m.">>

\* C26 witness: the example of the specification, answered by the third
\* endpoint asked
C26_Witness ==
    /\ ZeroElements(1)
    /\ t[1].ex.nreq = 3
    /\ t[1].out.text = <<"No OSM restaurants found near ", "46.9", ", ", "7.4", " within ",
                         "500", " m.">>

\* overpass_query is between its entry and its return or raise
InQuery(r) == t[r].pc \in {"post", "sleep"}

\* where a call stands in its rounds: a request in flight is the idx-th of
\* round attempts + 1 and goes to the idx-th endpoint of the call's order,
\* every earlier round having asked all N endpoints; a sleep follows N
\* failures of the round just ended
RoundsInOrder(r) ==
    LET ex == t[r].ex
    IN  /\ t[r].pc = "post"
             => /\ ex.idx \in 1..NEndpoints
                /\ ex.nreq = ex.attempts * NEndpoints + ex.idx
                /\ Len(ex.log) = ex.nreq - 1
                /\ Len(ex.rounds) = ex.nreq
                /\ \A i \in 1..ex.nreq : ex.rounds[i] = ((i - 1) \div NEndpoints) + 1
                /\ ex.sleepfor = 0
        /\ t[r].pc = "sleep"
             => /\ ex.idx = 0
                /\ ex.attempts \in 1..4
                /\ ex.nreq = ex.attempts * NEndpoints
                /\ Len(ex.log) = ex.nreq
                /\ \A i \in 1..Len(ex.log) : ex.log[i] = "fail"
                /\ ex.last_exc.ep = ex.endpoints[NEndpoints]
                /\ ex.sleepfor > 0

\* a step in which an endpoint failed inside a round: the next endpoint of
\* the same order is asked at once, nothing slept
FailoverAtOnce(r) ==
    (t[r].pc = "post" /\ t'[r].pc = "post")
        => /\ t'[r].ex.endpoints = t[r].ex.endpoints
           /\ t'[r].ex.idx = t[r].ex.idx + 1
           /\ t'[r].ex.last_exc.ep = t[r].ex.endpoints[t[r].ex.idx]
           /\ t'[r].ex.slept = t[r].ex.slept
           /\ t'[r].ex.sleepfor = 0
           /\ t'[r].ex.attempts = t[r].ex.attempts

\* the step that ends a sleep without the call's timeout firing
SleepEnds(r) == t[r].pc = "sleep" /\ t'[r].pc # "sleep" /\ ~t'[r].fired

\* the sleep is followed by the first request of another round
AnotherRound(r) ==
    /\ t'[r].pc = "post"
    /\ t'[r].ex.idx = 1
    /\ t'[r].ex.endpoints = t[r].ex.endpoints
    /\ t'[r].ex.attempts = t[r].ex.attempts

\* C27 (as claimed): each round asks the endpoints once each in the call's
\* shuffled order, a failure is followed at once by the next endpoint, and a
\* sleep comes only after a whole failed round and is followed by another
\* round.
C27_SleepThenAnotherRound ==
    /\ [](\A r \in AllSlots : RoundsInOrder(r))
    /\ [][\A r \in AllSlots : FailoverAtOnce(r)]_vars
    /\ [][\A r \in AllSlots : SleepEnds(r) => AnotherRound(r)]_vars

\* C27 (amended): as above, but the sleep is followed by another round only
\* after rounds 1 to 3; after round 4 it is followed by the raise.
C27_RoundsInOrder ==
    /\ [](\A r \in AllSlots : RoundsInOrder(r))
    /\ [][\A r \in AllSlots : FailoverAtOnce(r)]_vars
    /\ [][\A r \in AllSlots :
            SleepEnds(r)
                => IF t[r].ex.attempts < 4 THEN AnotherRound(r)
                   ELSE /\ t'[r].pc = "done"
                        /\ t'[r].ex.nreq = t[r].ex.nreq
                        /\ t'[r].out.text[1] = "Error querying Overpass: "]_vars

\* C27 witness: the second request of the third round is in flight, in an
\* order other than the configured one
C27_Witness ==
    /\ t[1].pc = "post"
    /\ t[1].ex.attempts = 2
    /\ t[1].ex.idx = 2
    /\ t[1].ex.nreq = 8
    /\ t[1].ex.slept = 6
    /\ t[1].ex.endpoints # OVERPASS_ENDPOINTS

\* the sleeps of overpass_query, in their order
SleepSchedule == <<2, 4, 6, 6>>

RECURSIVE SumTo(_, _)
SumTo(seq, n) == IF n = 0 THEN 0 ELSE SumTo(seq, n - 1) + seq[n]

\* C28: with every endpoint failing, the k-th failed round is followed by
\* the k-th sleep of 2, 4, 6, 6 seconds, the earlier sleeps having been
\* slept in full, and the failure is raised by the step that ends the
\* fourth sleep.
C28_FourSleeps ==
    /\ [](\A r \in AllSlots :
            /\ t[r].pc = "sleep"
                 => /\ t[r].ex.attempts \in 1..4
                    /\ t[r].ex.sleepfor = SleepSchedule[t[r].ex.attempts]
                    /\ t[r].ex.slept = SumTo(SleepSchedule, t[r].ex.attempts - 1)
            /\ Exhausted(r)
                 => /\ t[r].ex.attempts = 4
                    /\ t[r].ex.slept = 2 + 4 + 6 + 6)
    /\ [][\A r \in AllSlots :
            (InQuery(r) /\ t'[r].pc = "done" /\ t'[r].out.kind = "text"
                /\ t'[r].out.text[1] = "Error querying Overpass: "
                /\ \A i \in 1..Len(t'[r].ex.log) : t'[r].ex.log[i] = "fail")
                => /\ t[r].pc = "sleep"
                   /\ t[r].ex.attempts = 4
                   /\ t[r].ex.sleepfor = 6
                   /\ t[r].ex.slept = 12]_vars

\* C28 witness: the fourth sleep is under way
C28_Witness ==
    /\ t[1].pc = "sleep"
    /\ t[1].ex.attempts = 4
    /\ t[1].ex.sleepfor = 6
    /\ t[1].ex.slept = 12

\* C29 (as claimed): overpass_query returns on the first well-formed answer it
\* gets, and a 2xx answer whose body cannot be decoded counts as a failure of
\* that endpoint: the next endpoint is asked, so that such an answer ends a
\* call only as the last attempt of the last round.
C29_UndecodableFailsOver ==
    \A r \in AllSlots :
        (Done(r) /\ ~t[r].fired /\ t[r].ex.log # <<>>)
            => LET log == t[r].ex.log
               IN  /\ log[Len(log)] = "ok" => \A i \in 1..(Len(log) - 1) : log[i] # "ok"
                   /\ log[Len(log)] = "badjson" => Len(log) = MaxRounds * NEndpoints

\* C30: when overpass_query gives up, the error it raises names the failure
\* of its last attempt, that of the last endpoint of the call's order in the
\* fourth round: not None and not an earlier failure.
C30_LastErrorIsLatest ==
    \A r \in AllSlots :
        Exhausted(r)
            => LET ex == t[r].ex
               IN  /\ ex.last_exc # NoExc
                   /\ ex.last_exc = ex.seen
                   /\ ex.last_exc.ep = ex.endpoints[NEndpoints]
                   /\ ex.last_exc.kind \in AbsorbedKinds
                   /\ Len(ex.log) = MaxRounds * NEndpoints
                   /\ t[r].out.text[2] = "Overpass query failed across mirrors. Last error: "
                                            \o ex.seen.kind \o " for " \o ex.seen.ep

\* C30 witness: a call gave up, its last attempt a transport failure of the
\* endpoint that is first in the configured list
C30_Witness ==
    /\ Exhausted(1)
    /\ t[1].ex.seen = [ep |-> OVERPASS_ENDPOINTS[1], kind |-> "transport"]
    /\ t[1].ex.endpoints[NEndpoints] = OVERPASS_ENDPOINTS[1]

\* the handler of the call in slot r raised on the arguments it was given
RaisedOnArguments(r) ==
    /\ t[r].name \in Handled(server)
    /\ Handler(server, t[r].name, t[r].arguments, 1, TRUE).kind = "raise"

\* the handler of the call in slot r caught the failure of its own
\* overpass_query: the mirrors exhausted, or a body that does not decode
CaughtUpstream(r) ==
    /\ ~t[r].fired
    /\ t[r].ex.log # <<>>
    /\ t[r].ex.log[Len(t[r].ex.log)] \in {"fail", "badjson"}

\* C31: in joint_server a failure raised by a handler on its arguments is
\* returned by call_tool as "Unhandled error in tool '<name>': <detail>" with
\* the name of the called tool, and a handler that caught the failure of its
\* own upstream query has its "Error querying Overpass: ..." text returned as
\* it is.
C31_RaisedRenderedCaughtPassed ==
    \A r \in AllSlots :
        (Done(r) /\ server = Joint /\ t[r].invoked)
            => /\ RaisedOnArguments(r)
                    => t[r].out =
                         [kind |-> "text",
                          text |-> <<"Unhandled error in tool '", t[r].name, "': ",
                                     Handler(server, t[r].name, t[r].arguments, 1, TRUE).text[1]>>]
               /\ CaughtUpstream(r)
                    => /\ t[r].out.kind = "text"
                       /\ Len(t[r].out.text) = 2
                       /\ t[r].out.text[1] = "Error querying Overpass: "
                       /\ t[r].out.text[2] =
                            IF t[r].ex.log[Len(t[r].ex.log)] = "badjson"
                            THEN "Expecting value: line 1 column 1 (char 0)"
                            ELSE "Overpass query failed across mirrors. Last error: "
                                     \o t[r].ex.seen.kind \o " for " \o t[r].ex.seen.ep

\* C31 witness: search_osm_restaurants was called with a latitude that is not
\* a number and call_tool rendered the ValueError under the tool's name
C31_Witness ==
    \E r \in AllSlots :
        /\ Done(r)
        /\ server = Joint
        /\ t[r].name = "search_osm_restaurants"
        /\ Has(t[r].arguments, "latitude")
        /\ t[r].arguments.kv["latitude"] = "abc"
        /\ t[r].out.text = <<"Unhandled error in tool '", "search_osm_restaurants", "': ",
                             "could not convert string to float: 'abc'">>

\* every answer the call's overpass_query received was a failure, and it
\* received one or was cut off while waiting
MirrorsAllFailed(r) ==
    /\ t[r].name \in {"search_osm_restaurants", "get_osm_place_details"}
    /\ t[r].invoked
    /\ \A i \in 1..Len(t[r].ex.log) : t[r].ex.log[i] = "fail"
    /\ t[r].ex.log # <<>> \/ t[r].fired

OsmTools == {"search_osm_restaurants", "get_osm_place_details"}

\* C33: no finished call of search_osm_restaurants or get_osm_place_details
\* returns a text that begins "Overpass error": a call whose upstream answers
\* were all failures, the last one an HTTP status failure, returns the
\* "Error querying Overpass: ..." text naming that failure, or the timeout
\* message.
C33_NeverOverpassErrorText ==
    \A r \in AllSlots :
        (Done(r) /\ t[r].name \in OsmTools /\ t[r].invoked)
            => /\ t[r].out.kind = "text" => t[r].out.text[1] # "Overpass error "
               /\ (MirrorsAllFailed(r) /\ t[r].ex.seen.kind = "status")
                    => \/ /\ ~t[r].fired
                          /\ t[r].out.text =
                               <<"Error querying Overpass: ",
                                 "Overpass query failed across mirrors. Last error: status for "
                                     \o t[r].ex.seen.ep>>
                       \/ /\ t[r].fired
                          /\ t[r].out.text[1] \in
                                {"Timed out searching OSM restaurants.",
                                 "Timed out searching OSM restaurants. Try a smaller radius/limit.",
                                 "Timed out getting OSM place details."}

\* C33 witness: every mirror answered every request with an HTTP status
\* failure and the call returned the exhaustion text
C33_Witness ==
    \E r \in AllSlots :
        /\ Exhausted(r)
        /\ t[r].name = "search_osm_restaurants"
        /\ t[r].ex.seen.kind = "status"
        /\ t[r].ex.last_exc.kind = "status"
        /\ t[r].elapsed = 18

\* C34: in joint_server, whenever the model is ready the tokenizer and the
\* model are both loaded and no load error is recorded; a translate_ja_to_en
\* call that got past its readiness check never met an absent tokenizer or
\* model.
C34_ReadyMeansLoaded ==
    server = Joint =>
        /\ model_ready => (tokenizer = "loaded" /\ model = "loaded" /\ model_error = NoneVal)
        /\ \A r \in AllSlots :
              (Done(r) /\ t[r].name = "translate_ja_to_en" /\ t[r].invoked
                  /\ t[r].out.text[1] # "[translation-error] mBART not ready: ")
                    => /\ model_ready /\ tokenizer = "loaded" /\ model = "loaded"
                       /\ t[r].out.text
                            # <<"Unhandled error in tool '", "translate_ja_to_en", "': ",
                                "'NoneType' object has no attribute 'generate'">>

\* C34 witness: the load succeeded and a translation was produced
C34_Witness ==
    \E r \in AllSlots :
        /\ server = Joint
        /\ model_ready
        /\ Done(r)
        /\ t[r].name = "translate_ja_to_en"
        /\ t[r].out.text = <<"translation of ", "konnichiwa">>

LacksCallMember(b) ==
    /\ Validates(b)
    /\ b.method = "tools/call"
    /\ \/ b.params.kind \in {"absent", "null"}
       \/ b.params.name = Absent
       \/ b.params.arguments.kind \in {"absent", "null"}

\* C36: a tools/call envelope without params, without a name or without
\* arguments (or with null arguments) is answered with a result envelope; a
\* missing name is answered as the unknown tool None, and ping and
\* get_current_time called without arguments answer with their defaults.
C36_MissingMembersStillAnswered ==
    \A r \in AllSlots :
        (Done(r) /\ t[r].via = "rpc" /\ LacksCallMember(t[r].body))
            => LET b == t[r].body
                   noname == b.params.kind \in {"absent", "null"} \/ b.params.name = Absent
                   noargs == b.params.kind \in {"absent", "null"}
                                \/ b.params.arguments.kind \in {"absent", "null"}
                   text == t[r].resp.result.content[1].text
               IN  /\ t[r].resp.status = 200
                   /\ t[r].resp.keys = {"jsonrpc", "id", "result"}
                   /\ t[r].resp.result.kind = "content"
                   /\ Len(t[r].resp.result.content) = 1
                   /\ noname => text = <<"Unknown tool: ", "None">>
                   /\ (~noname /\ noargs /\ b.params.name = "ping") => text = <<"pong: ", "ok">>
                   /\ (~noname /\ noargs /\ b.params.name = "get_current_time")
                        => text = <<"Current time in ", "UTC", ": ", "YYYY-MM-DD HH:MM:SS", " UTC">>

\* C36 witness: ping was called with "arguments": null and answered pong: ok
C36_Witness ==
    \E r \in AllSlots :
        /\ Done(r)
        /\ t[r].via = "rpc"
        /\ t[r].body.method = "tools/call"
        /\ t[r].body.params = Params("ping", NullArgs)
        /\ t[r].resp.result.kind = "content"
        /\ t[r].resp.result.content[1].text = <<"pong: ", "ok">>

\* C37: a search_tripadvisor_restaurants call whose search answered n > 0
\* results with location ids returns the listing whatever the detail requests
\* did: every result is listed, numbered 1..n in the order received, and a
\* result has its detail lines exactly when its own detail request succeeded.
C37_DetailFailureSkipped ==
    \A r \in AllSlots :
        (Done(r) /\ t[r].name = "search_tripadvisor_restaurants" /\ t[r].ta.ids /\ t[r].ta.n > 0)
            => LET n == t[r].ta.n
                   text == t[r].out.text
               IN  /\ t[r].out.kind = "text"
                   /\ Len(t[r].ta.enriched) = n
                   /\ Len(text) = 5 + 2 * n
                   /\ text[1] = "Found restaurants near "
                   /\ \A i \in 1..n :
                         /\ text[4 + 2 * i] = NatStr(i) \o ". "
                         /\ text[5 + 2 * i] = "Phone/Website" <=> t[r].ta.enriched[i]

\* C37 witness: of two results the first one's detail request failed and the
\* second one's succeeded
C37_Witness ==
    \E r \in AllSlots :
        /\ Done(r)
        /\ t[r].name = "search_tripadvisor_restaurants"
        /\ t[r].ta.enriched = <<FALSE, TRUE>>
        /\ t[r].out.text[1] = "Found restaurants near "
        /\ t[r].out.text[6] = "1. "
        /\ t[r].out.text[8] = "2. "
        /\ t[r].out.text[9] = "Phone/Website"

\* C38: calculator returns the sum, the difference, the product, and for "/"
\* with a divisor other than zero the quotient; for "/" with divisor zero and
\* for every other operator string it raises ValueError.
C38_CalculatorOutcome ==
    calc.pc = "done" =>
        LET a == calc.num1
            b == calc.num2
            out == calc.out
        IN  CASE calc.operator = "+" -> out.kind = "return" /\ out.den = 1 /\ out.num = a + b
              [] calc.operator = "-" -> out.kind = "return" /\ out.den = 1 /\ out.num = a - b
              [] calc.operator = "*" -> out.kind = "return" /\ out.den = 1 /\ out.num = a * b
              [] calc.operator = "/" /\ b # 0 ->
                    out.kind = "return" /\ out.den > 0 /\ out.num * b = a * out.den
              [] OTHER -> out.kind = "raise" /\ out.exc = "ValueError"

\* C38 witness: a division by zero was asked for and ValueError was raised
C38_Witness ==
    /\ calc.pc = "done"
    /\ calc.operator = "/"
    /\ calc.num1 = 1
    /\ calc.num2 = 0
    /\ calc.out.kind = "raise"
    /\ calc.out.msg = "Division by zero is not allowed."

\* the positions of the messages of a role
Positions(role) == {i \in 1..Len(chat.messages) : chat.messages[i].role = role}

\* C39: in the Ollama client a turn executes at most one tool call, the first
\* one the model's first answer requested; a tool message directly follows
\* the assistant message that requested its call, which directly follows the
\* turn's user message; the turn's second model call is made without tools
\* and the tool calls its answer may hold are never executed.
C39_OneToolCallPerTurn ==
    /\ Len(chat.executed) <= 1
    /\ chat.asked \in {<<>>, <<TRUE>>, <<TRUE, FALSE>>}
    /\ chat.pc = "first" => chat.asked = <<TRUE>>
    /\ chat.pc = "final" => (chat.asked = <<TRUE, FALSE>> /\ Len(chat.executed) = 1)
    /\ Cardinality(Positions("tool")) <= Cardinality(Positions("user"))
    /\ \A i \in Positions("tool") :
          /\ i >= 4
          /\ chat.messages[i - 1].role = "assistant"
          /\ chat.messages[i - 1].tool_calls # <<>>
          /\ chat.messages[i].content = chat.messages[i - 1].tool_calls[1]
          /\ chat.messages[i - 2].role = "user"
          /\ i < Len(chat.messages) => chat.messages[i + 1].role = "assistant"
          /\ i + 1 < Len(chat.messages) => chat.messages[i + 2].role = "user"

\* C39 witness: the first answer requested two tool calls, the first was
\* executed, and the second answer requested a tool call that was not
C39_Witness ==
    /\ chat.pc = "input"
    /\ Len(chat.messages) = 5
    /\ chat.messages[3].tool_calls = <<"calculator", "current_datetime">>
    /\ chat.messages[4] = Message("tool", <<>>, "calculator")
    /\ chat.messages[5].tool_calls = <<"current_datetime">>
    /\ chat.executed = <<"calculator">>
    /\ chat.asked = <<TRUE, FALSE>>

====
